---- MODULE Spec2Model ----
(***************************************************************************)
(* Turn controller of forgeflare (src/src/main.rs), with the hook runner   *)
(* (src/src/hooks.rs), the error classifier (src/src/api.rs) and the tool  *)
(* effect table (src/src/tools/mod.rs).                                    *)
(*                                                                         *)
(* A session is a hook configuration, an environment profile and a series  *)
(* of turns on one conversation.  The LLM endpoint, the hook subprocesses  *)
(* and the tools are the environment: every answer they can give is drawn  *)
(* with \E from small sets.                                                *)
(***************************************************************************)
EXTENDS Integers, Sequences, FiniteSets, TLC

\* ------------------------------------------------------------------ bounds
\* Turns per session.
MaxTurns == 2
\* Freely chosen model responses per session (profiles "varied" and "flaky");
\* afterwards the endpoint answers with a plain text EndTurn response.
MaxCalls == 2
\* Rare environment events per session (profile "flaky"): a hook that fails or gives an unusual
\* answer, a tool error, a worker panic, an API call that meets faults.
MaxRare == 1

\* ------------------------------------------------------- program constants
\* A limit that lets one more batch through.
MAX_TOOL_ITERATIONS_OneMore == 50 + 1
MAX_TOOL_ITERATIONS == 50
BACKOFF_SCHEDULE == <<2, 4, 8, 16>>
\* One retry short of the schedule.
MAX_RETRIES_OneShort == Len(BACKOFF_SCHEDULE) - 1
MAX_RETRIES == 4
RETRY_AFTER_CAP == 60
CONTEXT_BUDGET_BYTES == 720000
MODEL_CONTEXT_TOKENS == 200000
TRIM_THRESHOLD == (MODEL_CONTEXT_TOKENS * 60) \div 100
\* A consecutive limit that lets a fourth block in a row through.
MAX_CONSECUTIVE_BLOCKS_OneMore == 3 + 1
MAX_CONSECUTIVE_BLOCKS == 3
MAX_TOTAL_BLOCKS == 10
MAX_CONTINUATIONS == 3

\* The seven canonical stop tags (hooks.rs test stop_seven_reasons).
StopTags ==
    {"end_turn", "iteration_limit", "api_error", "continuation_cap",
     "block_limit_consecutive", "block_limit_total", "convergence_signal"}

\* ------------------------------------------------------------ data model
\* ContentBlock (api.rs).  A JSON input is "null", "obj" or "bigobj" (an object
\* that serializes to a long string); the content of a ToolResult is a sequence
\* of tokens, so that prefixes can be observed.
Text(t) == [type |-> "text", text |-> t]
ToolUse(id, name, input) == [type |-> "tool_use", id |-> id, name |-> name, input |-> input]
ToolResult(id, content, is_error) ==
    [type |-> "tool_result", tool_use_id |-> id, content |-> content, is_error |-> is_error]
Message(role, content) == [role |-> role, content |-> content]

IsToolUse(b) == b.type = "tool_use"
IsToolResult(b) == b.type = "tool_result"

\* Serialized length of a block / a message (serde_json::to_string(m).len()).
\* Only the input of a ToolUse can be large here.
BlockBytes(b) ==
    IF IsToolUse(b) /\ b.input = "bigobj" THEN 400000 ELSE 100

RECURSIVE SumBytes(_)
SumBytes(bs) == IF bs = <<>> THEN 0 ELSE BlockBytes(Head(bs)) + SumBytes(Tail(bs))

MsgBytes(m) == 30 + SumBytes(m.content)

RECURSIVE ConvBytes(_)
ConvBytes(ms) == IF ms = <<>> THEN 0 ELSE MsgBytes(Head(ms)) + ConvBytes(Tail(ms))

\* Vec::pop and Vec::remove(0)
Pop(s) == IF s = <<>> THEN s ELSE SubSeq(s, 1, Len(s) - 1)
Last(s) == s[Len(s)]

\* ------------------------------------------------------- trim (main.rs)
\* The while loop of trim_conversation: `rest` is messages after remove(0).
RECURSIVE TrimLoop(_, _)
TrimLoop(first, rest) ==
    IF Len(rest) > 1 /\ MsgBytes(first) + ConvBytes(rest) > CONTEXT_BUDGET_BYTES
    THEN LET r1 == Tail(rest)
             r2 == IF r1 # <<>> /\ Head(r1).role = "assistant" THEN Tail(r1) ELSE r1
         IN  TrimLoop(first, r2)
    ELSE rest

trim_conversation(messages) ==
    IF ConvBytes(messages) <= CONTEXT_BUDGET_BYTES \/ Len(messages) <= 2
    THEN messages
    ELSE <<Head(messages)>> \o TrimLoop(Head(messages), Tail(messages))

\* The gate with a strict comparison at the threshold.
trim_if_needed_Strict(messages, last_in) ==
    IF last_in = 0 \/ last_in > TRIM_THRESHOLD
    THEN trim_conversation(messages)
    ELSE messages

trim_if_needed(messages, last_in) ==
    IF last_in = 0 \/ last_in >= TRIM_THRESHOLD
    THEN trim_conversation(messages)
    ELSE messages

\* ---------------------------------------------------- recovery (main.rs)
OnlyToolUse(m) == \A k \in 1..Len(m.content) : IsToolUse(m.content[k])

recover_conversation(messages) ==
    LET m1 == IF messages # <<>> /\ Last(messages).role = "user"
              THEN Pop(messages) ELSE messages
    IN  IF m1 # <<>> /\ Last(m1).role = "assistant" /\ OnlyToolUse(Last(m1))
        THEN LET m2 == Pop(m1)
             IN  IF m2 # <<>> /\ Last(m2).role = "user" THEN Pop(m2) ELSE m2
        ELSE m1

\* ------------------------------------------- MaxTokens handling (main.rs)
KeepBlock(b) == IF IsToolUse(b) THEN b.input # "null" ELSE TRUE

\* The filter without the placeholder for an empty result.
filter_null_input_tool_use_NoPlaceholder(blocks) ==
    SelectSeq(blocks, KeepBlock)

filter_null_input_tool_use(blocks) ==
    LET filtered == SelectSeq(blocks, KeepBlock)
    IN  IF filtered = <<>> THEN <<Text("[Response truncated]")>> ELSE filtered

\* The classification with the cap compared one too late.
classify_max_tokens_OneMore(blocks, cont) ==
    IF Len(blocks) = 1 /\ blocks[1] = Text("[Response truncated]")
    THEN "BreakEmpty"
    ELSE IF \E k \in 1..Len(blocks) : IsToolUse(blocks[k])
         THEN "DispatchTools"
         ELSE IF cont <= MAX_CONTINUATIONS THEN "Continue" ELSE "BreakCapReached"

classify_max_tokens(blocks, cont) ==
    IF Len(blocks) = 1 /\ blocks[1] = Text("[Response truncated]")
    THEN "BreakEmpty"
    ELSE IF \E k \in 1..Len(blocks) : IsToolUse(blocks[k])
         THEN "DispatchTools"
         ELSE IF cont < MAX_CONTINUATIONS THEN "Continue" ELSE "BreakCapReached"

\* -------------------------------------------------- tool table (tools/mod.rs)
\* A table that takes a name it does not know as Pure.
tool_effect_UnknownPure(name) ==
    IF name \in {"Bash", "Edit"} THEN "Mutating" ELSE "Pure"

tool_effect(name) ==
    IF name \in {"Read", "Glob", "Grep"} THEN "Pure" ELSE "Mutating"

\* ---------------------------------------------- error classifier (api.rs)
\* AgentError: HttpError{status, retry_after}, StreamTransient, StreamParse,
\* Api (transport; `how` is timeout, connect or other), Json.
HttpError(status, ra) == [kind |-> "HttpError", status |-> status, retry_after |-> ra]
StreamTransient == [kind |-> "StreamTransient"]
StreamParse == [kind |-> "StreamParse"]
ApiError(how) == [kind |-> "Api", how |-> how]
JsonError == [kind |-> "Json"]

\* A classifier without the arm for the statuses from 500 up.
classify_error_NamedStatusesOnly(e) ==
    CASE e.kind = "HttpError" ->
            IF e.status \in {429, 503, 529} THEN "Transient" ELSE "Permanent"
      [] e.kind = "StreamTransient" -> "Transient"
      [] e.kind = "StreamParse" -> "Permanent"
      [] e.kind = "Api" ->
            IF e.how \in {"timeout", "connect"} THEN "Transient" ELSE "Permanent"
      [] e.kind = "Json" -> "Permanent"

classify_error(e) ==
    CASE e.kind = "HttpError" ->
            IF e.status \in {429, 503, 529} THEN "Transient"
            ELSE IF e.status >= 500 THEN "Transient" ELSE "Permanent"
      [] e.kind = "StreamTransient" -> "Transient"
      [] e.kind = "StreamParse" -> "Permanent"
      [] e.kind = "Api" ->
            IF e.how \in {"timeout", "connect"} THEN "Transient" ELSE "Permanent"
      [] e.kind = "Json" -> "Permanent"

\* The server's retry-after taken as it comes, without the cap.
RetryDelay_Uncapped(e, attempt) ==
    IF e.kind = "HttpError" /\ e.retry_after # -1
    THEN e.retry_after
    ELSE BACKOFF_SCHEDULE[attempt + 1]

\* Delay before the next attempt (main.rs, retry loop).  retry_after is -1 for None.
RetryDelay(e, attempt) ==
    IF e.kind = "HttpError" /\ e.retry_after # -1
    THEN IF e.retry_after < RETRY_AFTER_CAP THEN e.retry_after ELSE RETRY_AFTER_CAP
    ELSE BACKOFF_SCHEDULE[attempt + 1]

\* ------------------------------------------------------ hook runner (hooks.rs)
\* HookConfig.  An Option is a sequence of length 0 (None) or 1 (Some).
HookConfig(event, command, match_tool, phase) ==
    [event |-> event, command |-> command, match_tool |-> match_tool, phase |-> phase]

matches_tool(h, tool) ==
    IF h.match_tool = <<>> THEN TRUE ELSE h.match_tool[1] = tool

\* What run_hook_subprocess returns: Ok(stdout) or a HookError.  stdout is
\* either not the JSON the caller deserializes (valid = FALSE) or an object
\* with `action` and optional `reason` and `signal`.
HookOk(action, reason, signal) ==
    [status |-> "ok", valid |-> TRUE, action |-> action, reason |-> reason, signal |-> signal]
OutAllow == HookOk("allow", <<>>, <<>>)
OutBlock == HookOk("block", << <<"denied">> >>, <<>>)
OutBlockNoReason == HookOk("block", <<>>, <<>>)
OutOther == HookOk("log", <<>>, <<>>)
OutContinue == HookOk("continue", <<>>, <<>>)
OutSignal == HookOk("signal", << "3 clean" >>, << "converged" >>)
OutSignalBare == HookOk("signal", <<>>, <<>>)
OutInvalidJson == [status |-> "ok", valid |-> FALSE]
OutTimeout == [status |-> "timeout"]
OutNonZeroExit == [status |-> "nonzero"]
OutSpawn == [status |-> "spawn"]

HookFailed(o) == o.status # "ok" \/ ~o.valid

\* Indices of the hooks, from which the runner's filters select.
Indices(hooks) == [k \in 1..Len(hooks) |-> k]

GuardHooks(hooks, tool) ==
    LET Keep(k) == /\ hooks[k].event = "PreToolUse"
                   /\ (IF hooks[k].phase = <<>> THEN "guard" ELSE hooks[k].phase[1]) = "guard"
                   /\ matches_tool(hooks[k], tool)
    IN  SelectSeq(Indices(hooks), Keep)

ObserveHooks(hooks, tool) ==
    LET Keep(k) == /\ hooks[k].event = "PreToolUse"
                   /\ hooks[k].phase = <<"observe">>
                   /\ matches_tool(hooks[k], tool)
    IN  SelectSeq(Indices(hooks), Keep)

PostHooks(hooks, tool) ==
    LET Keep(k) == hooks[k].event = "PostToolUse" /\ matches_tool(hooks[k], tool)
    IN  SelectSeq(Indices(hooks), Keep)

StopHooks(hooks) ==
    LET Keep(k) == hooks[k].event = "Stop"
    IN  SelectSeq(Indices(hooks), Keep)

\* block_reason of a failed guard hook.
FailReason(cmd, o) ==
    <<"hook failed:", cmd,
      CASE o.status = "timeout" -> "timed out"
        [] o.status = "nonzero" -> "exited with code"
        [] o.status = "spawn" -> "spawn error"
        [] OTHER -> "returned invalid JSON",
      "(tool blocked by default)">>

\* A guard that fails open: a hook that breaks lets the tool through.
GuardDecision_FailOpen(cmd, o) ==
    IF HookFailed(o) THEN <<FALSE, <<>>>>
    ELSE IF o.action = "block"
         THEN <<TRUE, IF o.reason = <<>> THEN <<"no reason provided">> ELSE o.reason[1]>>
         ELSE <<FALSE, <<>>>>

\* A guard that lets through only on an explicit "allow".
GuardDecision_AllowOnly(cmd, o) ==
    IF HookFailed(o) THEN <<TRUE, FailReason(cmd, o)>>
    ELSE IF o.action # "allow"
         THEN <<TRUE, IF o.reason = <<>> THEN <<"no reason provided">> ELSE o.reason[1]>>
         ELSE <<FALSE, <<>>>>

\* What one guard hook decides: <<blocked, block_reason>>.
GuardDecision(cmd, o) ==
    IF HookFailed(o) THEN <<TRUE, FailReason(cmd, o)>>
    ELSE IF o.action = "block"
         THEN <<TRUE, IF o.reason = <<>> THEN <<"no reason provided">> ELSE o.reason[1]>>
         ELSE <<FALSE, <<>>>>

\* A guard phase that runs every guard and lets the last blocking one win.
GuardPhase_RunsAll(hooks, gs, outs, ran) ==
    LET Blocks(g) == GuardDecision(hooks[g].command, outs[g])[1]
        blockers == SelectSeq(gs, Blocks)
    IN  IF blockers = <<>>
        THEN [blocked |-> FALSE, blocked_by |-> "", block_reason |-> <<>>, ran |-> ran \o gs]
        ELSE LET g == blockers[Len(blockers)]
             IN  [blocked |-> TRUE, blocked_by |-> hooks[g].command,
                  block_reason |-> GuardDecision(hooks[g].command, outs[g])[2],
                  ran |-> ran \o gs]

\* Guard phase: the hooks gs (indices) in order until the first that blocks.
RECURSIVE GuardPhase(_, _, _, _)
GuardPhase(hooks, gs, outs, ran) ==
    IF gs = <<>>
    THEN [blocked |-> FALSE, blocked_by |-> "", block_reason |-> <<>>, ran |-> ran]
    ELSE LET g == Head(gs)
             d == GuardDecision(hooks[g].command, outs[g])
         IN  IF d[1]
             THEN [blocked |-> TRUE, blocked_by |-> hooks[g].command,
                   block_reason |-> d[2], ran |-> Append(ran, g)]
             ELSE GuardPhase(hooks, Tail(gs), outs, Append(ran, g))

\* Input of an observe hook: blocked, and blocked_by / block_reason when blocked.
ObserveInput(g) ==
    [blocked |-> g.blocked,
     blocked_by |-> IF g.blocked THEN <<g.blocked_by>> ELSE <<>>,
     block_reason |-> IF g.blocked THEN <<g.block_reason>> ELSE <<>>]

StartsWithHookFailed(reason) == reason # <<>> /\ reason[1] = "hook failed:"

BlockReason(g) ==
    IF StartsWithHookFailed(g.block_reason)
    THEN g.block_reason
    ELSE <<"blocked by", g.blocked_by, ":">> \o g.block_reason

\* A runner that skips the observe phase once a guard has blocked.
run_pre_tool_use_NoObserveOnBlock(hooks, tool, outs) ==
    LET g == GuardPhase(hooks, GuardHooks(hooks, tool), outs, <<>>)
        os == ObserveHooks(hooks, tool)
    IN  [result |-> IF g.blocked THEN "Block" ELSE "Allow",
         reason |-> IF g.blocked THEN BlockReason(g) ELSE <<>>,
         blocked_by |-> g.blocked_by,
         guards |-> g.ran,
         observes |-> IF g.blocked THEN <<>> ELSE os,
         observe_input |-> ObserveInput(g)]

\* run_pre_tool_use: outs gives the answer of each hook when it is run.
run_pre_tool_use(hooks, tool, outs) ==
    LET g == GuardPhase(hooks, GuardHooks(hooks, tool), outs, <<>>)
        os == ObserveHooks(hooks, tool)
    IN  [result |-> IF g.blocked THEN "Block" ELSE "Allow",
         reason |-> IF g.blocked THEN BlockReason(g) ELSE <<>>,
         blocked_by |-> g.blocked_by,
         guards |-> g.ran,
         observes |-> os,
         observe_input |-> ObserveInput(g)]

\* Observation pushed for a signalling PostToolUse hook.
Observation(o, tool_iterations) ==
    [signal |-> IF o.signal = <<>> THEN "unknown" ELSE o.signal[1],
     reason |-> IF o.reason = <<>> THEN "no reason" ELSE o.reason[1],
     tool_iterations |-> tool_iterations]

PostSignals(o) == ~HookFailed(o) /\ o.action = "signal"

RECURSIVE PostObservations(_, _, _)
PostObservations(ps, outs, tool_iterations) ==
    IF ps = <<>> THEN <<>>
    ELSE (IF PostSignals(outs[Head(ps)])
          THEN <<Observation(outs[Head(ps)], tool_iterations)>> ELSE <<>>)
         \o PostObservations(Tail(ps), outs, tool_iterations)

\* A runner whose outcome is the last signal of the call.
run_post_tool_use_LastSignal(hooks, tool, outs, tool_iterations) ==
    LET ps == PostHooks(hooks, tool)
        obs == PostObservations(ps, outs, tool_iterations)
    IN  [result |-> IF obs = <<>> THEN "Continue" ELSE "Signal",
         signal |-> IF obs = <<>> THEN <<>>
                    ELSE <<obs[Len(obs)].signal, obs[Len(obs)].reason>>,
         ran |-> ps,
         observations |-> obs]

\* run_post_tool_use: every matching hook runs; the first signal is the result.
run_post_tool_use(hooks, tool, outs, tool_iterations) ==
    LET ps == PostHooks(hooks, tool)
        obs == PostObservations(ps, outs, tool_iterations)
    IN  [result |-> IF obs = <<>> THEN "Continue" ELSE "Signal",
         signal |-> IF obs = <<>> THEN <<>> ELSE <<obs[1].signal, obs[1].reason>>,
         ran |-> ps,
         observations |-> obs]

\* The convergence file: ConvergenceState, or absent (exists = FALSE).
\* tmp is the sibling .tmp file: <<>> when absent, else its content.
NoFile == [exists |-> FALSE, observations |-> <<>>, final |-> <<>>, tmp |-> <<>>]

\* ConvergenceState::default()
DefaultState == [observations |-> <<>>, final |-> <<>>]

\* fs::read_to_string(path) and the parse, with the default when there is no file.
ReadState(file) ==
    IF file.exists THEN [observations |-> file.observations, final |-> file.final]
    ELSE DefaultState

\* fs::write(tmp, json)
WriteTmp(file, state) == [file EXCEPT !.tmp = <<state>>]

\* fs::rename(tmp, path)
RenameTmp(file) ==
    [exists |-> TRUE, observations |-> file.tmp[1].observations,
     final |-> file.tmp[1].final, tmp |-> <<>>]

\* An observation write that starts from an empty state instead of the file.
write_observations_FromDefault(file, new_observations) ==
    RenameTmp(WriteTmp(file, [DefaultState EXCEPT !.observations = new_observations]))

write_observations(file, new_observations) ==
    LET state == ReadState(file)
    IN  RenameTmp(WriteTmp(file,
            [state EXCEPT !.observations = state.observations \o new_observations]))

write_final_state(file, reason, tool_iterations, total_tokens) ==
    LET state == ReadState(file)
    IN  RenameTmp(WriteTmp(file,
            [state EXCEPT !.final = << [reason |-> reason,
                                        tool_iterations |-> tool_iterations,
                                        total_tokens |-> total_tokens] >>]))

\* A Stop runner that returns at once when no Stop hook is configured.
run_stop_ReturnsWhenNoHooks(hooks, outs, file, reason, tool_iterations, total_tokens) ==
    LET ss == StopHooks(hooks)
    IN  [ran |-> ss,
         outs |-> [j \in 1..Len(ss) |-> outs[ss[j]]],
         file |-> IF ss = <<>> THEN file
                  ELSE write_final_state(file, reason, tool_iterations, total_tokens)]

\* run_stop: every Stop hook runs, whatever the earlier ones answered, and then
\* the final entry is written.
run_stop(hooks, outs, file, reason, tool_iterations, total_tokens) ==
    LET ss == StopHooks(hooks)
    IN  [ran |-> ss,
         outs |-> [j \in 1..Len(ss) |-> outs[ss[j]]],
         file |-> write_final_state(file, reason, tool_iterations, total_tokens)]

\* The total limit looked at before the consecutive one.
BlockThreshold_TotalFirst(consecutive, total) ==
    IF total >= MAX_TOTAL_BLOCKS THEN "block_limit_total"
    ELSE IF consecutive >= MAX_CONSECUTIVE_BLOCKS THEN "block_limit_consecutive"
    ELSE ""

\* Threshold check after a Block (main.rs, both dispatch paths): the tag of the
\* threshold that trips, or "" when none does.
BlockThreshold(consecutive, total) ==
    IF consecutive >= MAX_CONSECUTIVE_BLOCKS THEN "block_limit_consecutive"
    ELSE IF total >= MAX_TOTAL_BLOCKS THEN "block_limit_total"
    ELSE ""

\* dispatch_tool (tools/mod.rs) as the controller sees it: Ok(output) or
\* Err(message); a name outside the table is always an error.
KnownTools == {"Read", "Glob", "Bash", "Edit", "Grep"}

dispatch_tool(name, outcome) ==
    IF name \notin KnownTools THEN [ok |-> FALSE, content |-> <<"Unknown tool">>]
    ELSE IF outcome = "ok" THEN [ok |-> TRUE, content |-> <<"output">>]
    ELSE [ok |-> FALSE, content |-> <<"error">>]

\* The ToolResult built from a dispatch_tool result (is_error None is FALSE).
ResultBlock(id, r) == ToolResult(id, r.content, ~r.ok)

\* ------------------------------------------------------------ environment
\* Hook configurations (.forgeflare/hooks.toml) of the sessions explored.
CfgNone == <<>>
CfgBasic ==
    << HookConfig("PreToolUse", "g1", <<>>, <<>>),
       HookConfig("PreToolUse", "o1", <<>>, <<"observe">>),
       HookConfig("PostToolUse", "p1", <<>>, <<>>),
       HookConfig("Stop", "s1", <<>>, <<>>) >>
CfgChain ==
    << HookConfig("PreToolUse", "gBash", <<"Bash">>, <<"guard">>),
       HookConfig("PreToolUse", "g2", <<>>, <<>>),
       HookConfig("PostToolUse", "p1", <<>>, <<>>),
       HookConfig("PostToolUse", "pRead", <<"Read">>, <<>>),
       HookConfig("PreToolUse", "oBash", <<"Bash">>, <<"observe">>),
       HookConfig("PreToolUse", "o2", <<>>, <<"observe">>) >>

\* Profiles of the environment:
\*   varied    - MaxCalls responses of any shape, then plain EndTurn answers;
\*               hooks and tools answer as usual and the API does not fail.
\*   flaky     - MaxCalls responses of the common shapes, then plain EndTurn
\*               answers; up to MaxRare rare events: hooks fail, tools fail,
\*               workers panic, API calls meet faults.
\*   toolloop  - the model asks for one Edit call with a large input every time
\*               and the reported input tokens are at the trim threshold.
\*   truncloop - every response is text cut at max_tokens.
\*   bigedit   - the first MaxCalls responses ask for one Edit call with a large
\*               input while the reported input tokens stay low; then plain
\*               EndTurn answers.
\*   purebatch - the first response asks for four pure tools at once, the
\*               later ones are plain EndTurn answers.
\*   seqbatch  - the first response asks for four Bash calls at once, the
\*               later ones are plain EndTurn answers.
\* A piped session (main.rs: stdin is not a terminal) has exactly one turn.
Sessions ==
    { [hooks |-> CfgNone, profile |-> "varied", piped |-> FALSE],
      [hooks |-> CfgBasic, profile |-> "varied", piped |-> FALSE],
      [hooks |-> CfgChain, profile |-> "varied", piped |-> FALSE],
      [hooks |-> CfgBasic, profile |-> "flaky", piped |-> FALSE],
      [hooks |-> CfgChain, profile |-> "flaky", piped |-> FALSE],
      [hooks |-> CfgBasic, profile |-> "toolloop", piped |-> TRUE],
      [hooks |-> CfgBasic, profile |-> "purebatch", piped |-> TRUE],
      [hooks |-> CfgBasic, profile |-> "seqbatch", piped |-> TRUE],
      [hooks |-> CfgNone, profile |-> "bigedit", piped |-> FALSE],
      [hooks |-> CfgNone, profile |-> "truncloop", piped |-> TRUE] }

Usage(inp, out) == [input_tokens |-> inp, output_tokens |-> out]
Response(bs, stop, usage) == [blocks |-> bs, stop_reason |-> stop, usage |-> usage]

FreeResponses ==
    { Response(bs[1], bs[2], Usage(1000, 10)) : bs \in
        { << <<Text("t")>>, "EndTurn" >>,
          << <<>>, "EndTurn" >>,
          << <<Text("t")>>, "MaxTokens" >>,
          << <<ToolUse("a", "Bash", "null")>>, "MaxTokens" >>,
          << <<Text("t"), ToolUse("a", "Bash", "null")>>, "MaxTokens" >>,
          << <<Text("t"), ToolUse("a", "Bash", "obj")>>, "MaxTokens" >>,
          << <<Text("t")>>, "ToolUse" >>,
          << <<ToolUse("a", "Bash", "obj")>>, "ToolUse" >>,
          << <<Text("t"), ToolUse("a", "Bash", "obj")>>, "ToolUse" >>,
          << <<ToolUse("a", "Read", "obj"), ToolUse("b", "Read", "obj")>>, "ToolUse" >>,
          << <<ToolUse("a", "Read", "obj"), ToolUse("b", "Bash", "obj")>>, "ToolUse" >>,
          << <<ToolUse("a", "Read", "obj"), ToolUse("b", "", "obj")>>, "ToolUse" >>,
          << <<ToolUse("a", "Bash", "null")>>, "ToolUse" >>,
          << <<ToolUse("a", "Read", "null"), ToolUse("b", "Read", "obj")>>, "ToolUse" >>,
          << <<ToolUse("a", "Frob", "obj")>>, "ToolUse" >> } }

FlakyResponses ==
    { Response(<<Text("t")>>, "EndTurn", Usage(1000, 10)),
      Response(<<ToolUse("a", "Bash", "null")>>, "MaxTokens", Usage(1000, 10)),
      Response(<<Text("t"), ToolUse("a", "Bash", "obj")>>, "ToolUse", Usage(1000, 10)),
      Response(<<ToolUse("a", "Read", "obj"), ToolUse("b", "Read", "obj")>>, "ToolUse",
               Usage(1000, 10)) }

ResponsesOf(prof, ncalls) ==
    CASE prof \in {"varied", "flaky"} ->
            IF ncalls >= MaxCalls THEN { Response(<<Text("t")>>, "EndTurn", Usage(1000, 10)) }
            ELSE IF prof = "varied" THEN FreeResponses ELSE FlakyResponses
      [] prof = "toolloop" ->
            { Response(<<ToolUse("a", "Edit", "bigobj")>>, "ToolUse", Usage(TRIM_THRESHOLD, 10)) }
      [] prof = "bigedit" ->
            IF ncalls >= MaxCalls THEN { Response(<<Text("t")>>, "EndTurn", Usage(1000, 10)) }
            ELSE { Response(<<ToolUse("a", "Edit", "bigobj")>>, "ToolUse", Usage(1000, 10)) }
      [] prof = "purebatch" ->
            IF ncalls >= 1 THEN { Response(<<Text("t")>>, "EndTurn", Usage(1000, 10)) }
            ELSE { Response(<<ToolUse("a", "Read", "obj"), ToolUse("b", "Glob", "obj"),
                              ToolUse("c", "Grep", "obj"), ToolUse("d", "Read", "obj")>>,
                            "ToolUse", Usage(1000, 10)) }
      [] prof = "seqbatch" ->
            IF ncalls >= 1 THEN { Response(<<Text("t")>>, "EndTurn", Usage(1000, 10)) }
            ELSE { Response(<<ToolUse("a", "Bash", "obj"), ToolUse("b", "Bash", "obj"),
                              ToolUse("c", "Bash", "obj"), ToolUse("d", "Bash", "obj")>>,
                            "ToolUse", Usage(1000, 10)) }
      [] prof = "truncloop" ->
            { Response(<<Text("t")>>, "MaxTokens", Usage(1000, 10)) }

\* A call that meets a fault is a rare event; its later attempts may fail freely.
ApiFaults(can) ==
    IF can
    THEN { HttpError(429, 120), HttpError(503, 0), HttpError(500, -1), StreamTransient,
           ApiError("connect"),
           HttpError(400, -1), HttpError(404, 30), StreamParse, ApiError("other"), JsonError }
    ELSE {}


GuardOuts(rareLeft) ==
    {OutAllow, OutBlock}
    \cup (IF rareLeft > 0
          THEN {OutOther, OutBlockNoReason, OutInvalidJson, OutTimeout, OutNonZeroExit,
                OutSpawn}
          ELSE {})
ObserveOuts(rareLeft) == {OutContinue} \cup (IF rareLeft > 0 THEN {OutTimeout} ELSE {})
PostOuts(rareLeft) ==
    {OutContinue, OutSignal}
    \cup (IF rareLeft > 0 THEN {OutSignalBare, OutInvalidJson, OutNonZeroExit} ELSE {})
StopOuts(rareLeft) == {OutContinue} \cup (IF rareLeft > 0 THEN {OutTimeout} ELSE {})
ToolOutcomes(rareLeft) == {"ok"} \cup (IF rareLeft > 0 THEN {"err"} ELSE {})
WorkerOutcomes(rareLeft) == {"ok"} \cup (IF rareLeft > 0 THEN {"err", "panic"} ELSE {})

IsRare(o) == o \in {OutOther, OutBlockNoReason, OutInvalidJson, OutTimeout, OutNonZeroExit,
                    OutSpawn, OutSignalBare}

Range(s) == {s[k] : k \in 1..Len(s)}

\* The answers of all hooks for one runner call: fg and fo give the answers of
\* the hooks in G and O; a hook outside both is not asked.
Answers(n, fg, fo) ==
    [k \in 1..n |-> IF k \in DOMAIN fg THEN fg[k]
                    ELSE IF k \in DOMAIN fo THEN fo[k] ELSE OutContinue]

RareAmong(idx, outs) == Cardinality({k \in idx : IsRare(outs[k])})

\* ------------------------------------------------------------------ state
VARIABLES
    hooks,                    \* HookRunner.hooks, loaded once per session
    profile,                  \* environment profile of the session
    piped,                    \* main: is_piped
    conversation,             \* Vec<Message> owned by main
    turn,                     \* run_turn invocations so far
    pc,                       \* where the controller is
    tool_iterations, continuation_count, last_input_tokens,
    consecutive_block_count, total_block_count, total_tokens, stop_reason_str,
    attempt,                  \* index of the retry loop
    blocks,                   \* content of the response being handled
    tool_uses, i, slots, blocked_flags, spawn_futures, workers,
    signal_break, threshold_tripped, threshold_reason, tool_results,
    convergence,              \* .forgeflare/convergence.json
    calls, rare,              \* environment budgets used
    api_log,                  \* history: the last API attempt of the current call
    last_call,                \* history: the last block handled by tool dispatch
    stop_calls, stop_arg,     \* history: run_stop calls of the current turn
    sent_messages,            \* history: the messages of the last request answered
    api_result,               \* run_turn: what send_message returned, <<>> for None
    last_post,                \* history: the last run_post_tool_use call of the batch
    sse,                      \* parse_sse_stream: one call of the decoder on one stream
    classified                \* classify_error: one fault and the class it was given

session == <<hooks, profile, piped>>
counters == <<tool_iterations, continuation_count, last_input_tokens,
              consecutive_block_count, total_block_count, total_tokens>>
batch == <<tool_uses, i, slots, blocked_flags, spawn_futures, workers,
           signal_break, threshold_tripped, threshold_reason, tool_results>>
history == <<api_log, last_call, stop_calls, stop_arg, sent_messages, api_result, last_post,
             sse, classified>>
vars == <<session, conversation, turn, pc, counters, stop_reason_str, attempt, blocks,
          batch, convergence, calls, rare, history>>

NoApi == [attempt |-> -1, error |-> <<>>, class |-> "", delay |-> -1]
NoStop == [reason |-> "", tool_iterations |-> 0, total_tokens |-> 0, ran |-> <<>>, outs |-> <<>>]
RareLeft == IF profile = "flaky" THEN MaxRare - rare ELSE 0

\* main: the state when the first prompt is read.
ControllerInit ==
    /\ \E s \in Sessions : hooks = s.hooks /\ profile = s.profile /\ piped = s.piped
    /\ conversation = <<>>
    /\ turn = 0
    /\ pc = "idle"
    /\ tool_iterations = 0 /\ continuation_count = 0 /\ last_input_tokens = 0
    /\ consecutive_block_count = 0 /\ total_block_count = 0 /\ total_tokens = 0
    /\ stop_reason_str = "end_turn"
    /\ attempt = 0
    /\ blocks = <<>>
    /\ tool_uses = <<>> /\ i = 1 /\ slots = <<>> /\ blocked_flags = <<>>
    /\ spawn_futures = <<>> /\ workers = <<>>
    /\ signal_break = FALSE /\ threshold_tripped = FALSE /\ threshold_reason = ""
    /\ tool_results = <<>>
    /\ convergence = NoFile
    /\ calls = 0 /\ rare = 0
    /\ api_log = NoApi /\ last_call = <<>> /\ stop_calls = 0 /\ stop_arg = NoStop
    /\ sent_messages = <<>>
    /\ api_result = <<>>
    /\ last_post = <<>>

\* ------------------------------------------------ SSE decoder (api.rs)
\* The byte stream is a sequence of byte groups.  ASCII groups stand for
\* themselves: "N" is a newline, "D" the six bytes `data: `, "E" a line
\* `event: ...`, the JSON groups below the text of one JSON object (or, for
\* "td0", "td1" and "jd0", the object up to the opening quote of its string,
\* closed by "}"), "a", "o", "v" one character of a string.  "C3" and "A9" are
\* the two bytes of one non-ASCII character.  "bt" and "bu" are the
\* content_block_start of a text and of a tool_use block, "bk" that of a block
\* of another type; "td0" and "td1" are text_delta events with index 0 and 1.
PlainEvents ==
    {"ms", "bt", "bu", "bs0", "md_end", "md_max", "md_tool", "md_other", "md_nostop",
     "err_over", "err_api", "err_rate", "err_inv", "err_notype", "ping", "bk"}
StringChars == {"a", "o", "v", "e2", "?"}

\* String::from_utf8_lossy of one chunk: "e2" is the two-byte character,
\* "?" the replacement character U+FFFD.
RECURSIVE from_utf8_lossy(_)
from_utf8_lossy(bytes) ==
    IF bytes = <<>> THEN <<>>
    ELSE IF Head(bytes) = "C3"
         THEN IF Len(bytes) >= 2 /\ bytes[2] = "A9"
              THEN <<"e2">> \o from_utf8_lossy(SubSeq(bytes, 3, Len(bytes)))
              ELSE <<"?">> \o from_utf8_lossy(Tail(bytes))
         ELSE IF Head(bytes) = "A9"
              THEN <<"?">> \o from_utf8_lossy(Tail(bytes))
              ELSE <<Head(bytes)>> \o from_utf8_lossy(Tail(bytes))

\* buffer.find("\n\n"): the position of the first blank line, 0 for None.
FindBlank(buffer) ==
    LET ps == {p \in 1..(Len(buffer) - 1) : buffer[p] = "N" /\ buffer[p + 1] = "N"}
    IN  IF ps = {} THEN 0 ELSE CHOOSE p \in ps : \A q \in ps : p <= q

\* str::lines
RECURSIVE Lines(_, _)
Lines(s, cur) ==
    IF s = <<>> THEN (IF cur = <<>> THEN <<>> ELSE <<cur>>)
    ELSE IF Head(s) = "N" THEN <<cur>> \o Lines(Tail(s), <<>>)
         ELSE Lines(Tail(s), Append(cur, Head(s)))

\* serde_json::from_str of the data of one line: <<>> when it is not JSON,
\* else the event with its string payload.
ParseData(data) ==
    IF Len(data) = 1 /\ data[1] \in PlainEvents
    THEN << [type |-> data[1], payload |-> <<>>] >>
    ELSE IF /\ Len(data) >= 2
            /\ data[1] \in {"td0", "td1", "jd0"}
            /\ data[Len(data)] = "}"
            /\ \A k \in 2..(Len(data) - 1) : data[k] \in StringChars
         THEN << [type |-> data[1], payload |-> SubSeq(data, 2, Len(data) - 1)] >>
         ELSE <<>>

\* serde_json::from_str of an accumulated tool input: `{"k":` is "o", `1}` is "v".
ParseInput(json_str) == IF json_str = <<"o", "v">> THEN <<json_str>> ELSE <<>>

SseText(t) == [type |-> "text", text |-> t]
SseToolUse(id, name, input) == [type |-> "tool_use", id |-> id, name |-> name, input |-> input]

\* Decoder state.  tool_input_bufs[k] is <<>> when block k has no entry, else
\* <<buffer>>.  err is <<>> or the error returned; seen lists the events applied;
\* emitted[k] is the text the callback has received from text_delta events
\* with index k - 1.
SseStart ==
    [content_blocks |-> <<>>, tool_input_bufs |-> <<>>, stop_reason |-> <<>>,
     usage |-> [input_tokens |-> 0, output_tokens |-> 0],
     buffer |-> <<>>, err |-> <<>>, seen |-> <<>>, emitted |-> << <<>>, <<>> >>]

\* message_delta: a known stop_reason is Some, an unknown one is None, an
\* absent one leaves the variable; the usage is taken when present.
StopOf(type, old) ==
    CASE type = "md_end" -> <<"EndTurn">>
      [] type = "md_max" -> <<"MaxTokens">>
      [] type = "md_tool" -> <<"ToolUse">>
      [] type = "md_other" -> <<>>
      [] OTHER -> old

\* A decoder for which every error event is a transient fault.
ErrorOf_AllTransient(type) == StreamTransient

\* The error of an error event by its error.type ("unknown" when missing).
ErrorOf(type) ==
    IF type \in {"err_over", "err_api", "err_rate"} THEN StreamTransient ELSE StreamParse

\* The match on the event type, for one parsed data line.
ApplyEvent(st, ev) ==
    LET s == [st EXCEPT !.seen = Append(@, ev.type)]
        n == Len(st.content_blocks)
    IN  CASE ev.type = "ms" -> [s EXCEPT !.usage.input_tokens = 7]
          [] ev.type = "bt" ->
                [s EXCEPT !.content_blocks = Append(@, SseText(<<>>)),
                          !.tool_input_bufs = Append(@, <<>>)]
          [] ev.type = "bu" ->
                [s EXCEPT !.content_blocks = Append(@, SseToolUse("a", "Read", <<>>)),
                          !.tool_input_bufs = Append(@, << <<>> >>)]
          [] ev.type \in {"td0", "td1"} ->
                LET index == IF ev.type = "td0" THEN 1 ELSE 2
                    called == [s EXCEPT !.emitted[index] = @ \o ev.payload]
                IN  IF n >= index /\ st.content_blocks[index].type = "text"
                    THEN [called EXCEPT !.content_blocks[index].text = @ \o ev.payload]
                    ELSE called
          [] ev.type = "jd0" ->
                IF n >= 1 /\ st.tool_input_bufs[1] # <<>>
                THEN [s EXCEPT !.tool_input_bufs[1] = << @[1] \o ev.payload >>]
                ELSE s
          [] ev.type = "bs0" ->
                IF n >= 1 /\ st.tool_input_bufs[1] # <<>>
                THEN LET v == ParseInput(st.tool_input_bufs[1][1])
                     IN  [s EXCEPT !.tool_input_bufs[1] = <<>>,
                                   !.content_blocks[1].input =
                                       IF st.content_blocks[1].type = "tool_use" /\ v # <<>>
                                       THEN v[1] ELSE @]
                ELSE s
          [] ev.type \in {"md_end", "md_max", "md_tool", "md_other", "md_nostop"} ->
                [s EXCEPT !.stop_reason = StopOf(ev.type, @),
                          !.usage.output_tokens = 3]
          [] ev.type \in {"err_over", "err_api", "err_rate", "err_inv", "err_notype"} ->
                [s EXCEPT !.err = <<ErrorOf(ev.type)>>]
          [] OTHER -> s

\* for line in event_block.lines(): a line without the prefix, `[DONE]` and a
\* line that is not JSON are passed over; an error event returns.
RECURSIVE ProcessLines(_, _)
ProcessLines(st, ls) ==
    IF ls = <<>> \/ st.err # <<>> THEN st
    ELSE LET line == Head(ls)
             ev == IF line # <<>> /\ Head(line) = "D" /\ Tail(line) # <<"DONE">>
                   THEN ParseData(Tail(line)) ELSE <<>>
         IN  ProcessLines(IF ev = <<>> THEN st ELSE ApplyEvent(st, ev[1]), Tail(ls))

\* while let Some(pos) = buffer.find("\n\n")
RECURSIVE ProcessBuffer(_)
ProcessBuffer(st) ==
    LET pos == FindBlank(st.buffer)
    IN  IF st.err # <<>> \/ pos = 0 THEN st
        ELSE ProcessBuffer(
                ProcessLines([st EXCEPT !.buffer = SubSeq(@, pos + 2, Len(@))],
                             Lines(SubSeq(st.buffer, 1, pos - 1), <<>>)))

\* One chunk: decode it, append it to the buffer, process the complete events.
FeedChunk(st, chunk) ==
    ProcessBuffer([st EXCEPT !.buffer = @ \o from_utf8_lossy(chunk)])

\* What parse_sse_stream returns once the stream has ended or an error event
\* has been met.
SseReturn(st) ==
    IF st.err # <<>> THEN [ok |-> FALSE, error |-> st.err[1]]
    ELSE IF st.stop_reason = <<>> THEN [ok |-> FALSE, error |-> StreamTransient]
    ELSE [ok |-> TRUE, blocks |-> st.content_blocks, stop_reason |-> st.stop_reason[1],
          usage |-> st.usage]

\* The byte sequences the server sends.
SseEvent(data) == <<"E", "N", "D">> \o data \o <<"N", "N">>

RECURSIVE Concat(_)
Concat(ss) == IF ss = <<>> THEN <<>> ELSE Head(ss) \o Concat(Tail(ss))

SseStreams ==
    { Concat(<<SseEvent(<<"ms">>), SseEvent(<<"bt">>), SseEvent(<<"td0", "a", "C3", "A9", "}">>),
               SseEvent(<<"bs0">>), SseEvent(<<"md_end">>)>>),
      Concat(<<SseEvent(<<"ms">>), SseEvent(<<"bu">>), SseEvent(<<"jd0", "o", "}">>),
               SseEvent(<<"jd0", "v", "}">>), SseEvent(<<"bs0">>), SseEvent(<<"md_tool">>)>>),
      Concat(<<SseEvent(<<"bt">>), SseEvent(<<"td0", "a", "}">>)>>),
      Concat(<<SseEvent(<<"bt">>), SseEvent(<<"td0", "a", "}">>), SseEvent(<<"err_over">>),
               SseEvent(<<"md_end">>)>>),
      Concat(<<SseEvent(<<"bt">>), SseEvent(<<"err_inv">>), SseEvent(<<"md_end">>)>>),
      Concat(<<SseEvent(<<"md_max">>), SseEvent(<<"err_notype">>)>>),
      SseEvent(<<"err_api">>),
      SseEvent(<<"err_rate">>),
      Concat(<<SseEvent(<<"bt">>), SseEvent(<<"md_end">>), SseEvent(<<"md_other">>)>>),
      Concat(<<SseEvent(<<"bt">>), SseEvent(<<"md_other">>)>>),
      Concat(<<SseEvent(<<"md_nostop">>), SseEvent(<<"ping">>), SseEvent(<<"junk">>),
               SseEvent(<<"md_max">>), SseEvent(<<"DONE">>)>>),
      Concat(<<SseEvent(<<"bt">>), <<"E", "N", "D", "md_end">>>>),
      Concat(<<SseEvent(<<"bt">>), SseEvent(<<"td0", "a", "}">>), SseEvent(<<"bt">>),
               SseEvent(<<"td1", "o", "}">>), SseEvent(<<"td0", "v", "}">>),
               SseEvent(<<"md_end">>)>>),
      Concat(<<SseEvent(<<"bk">>), SseEvent(<<"bt">>), SseEvent(<<"td1", "a", "}">>),
               SseEvent(<<"md_end">>)>>),
      Concat(<<SseEvent(<<"md_tool">>), <<"D", "err_over", "N">>>>) }

\* No decoder call: the value of sse while the controller runs.
SseIdle == [input |-> <<>>, rest |-> <<>>, st |-> SseStart, result |-> <<>>, transport |-> FALSE]
SseCall(bytes) == [SseIdle EXCEPT !.input = bytes, !.rest = bytes]

\* No fault at hand: the value of classified while the controller runs.
NoFault == [error |-> <<>>, class |-> <<>>]

Init == ControllerInit /\ sse = SseIdle /\ classified = NoFault

\* ------------------------------------------------------------- run_turn
\* Entry of run_turn: push the user message, initialise the per-turn counters.
StartTurn ==
    /\ pc = "idle"
    /\ turn < (IF piped THEN 1 ELSE MaxTurns)
    /\ turn' = turn + 1
    /\ conversation' = Append(conversation, Message("user", <<Text("hi")>>))
    /\ tool_iterations' = 0 /\ continuation_count' = 0 /\ last_input_tokens' = 0
    /\ consecutive_block_count' = 0 /\ total_block_count' = 0 /\ total_tokens' = 0
    /\ stop_reason_str' = "end_turn"
    /\ stop_calls' = 0 /\ stop_arg' = NoStop /\ api_log' = NoApi /\ last_call' = <<>>
    /\ sent_messages' = <<>>
    /\ api_result' = <<>>
    /\ last_post' = <<>>
    /\ sse' = sse
    /\ classified' = classified
    /\ pc' = "loop"
    /\ UNCHANGED <<session, attempt, blocks, batch, convergence, calls, rare>>

\* Top of the inner loop below the iteration limit: trim, then enter the retry loop.
LoopTop ==
    /\ pc = "loop"
    /\ tool_iterations < MAX_TOOL_ITERATIONS
    /\ conversation' = trim_if_needed(conversation, last_input_tokens)
    /\ attempt' = 0
    /\ api_log' = NoApi
    /\ api_result' = <<>>
    /\ last_post' = <<>>
    /\ sse' = sse
    /\ classified' = classified
    /\ pc' = "api"
    /\ UNCHANGED <<session, turn, counters, stop_reason_str, blocks, batch, convergence,
                   calls, rare, last_call, stop_calls, stop_arg,
                   sent_messages>>

\* Top of the inner loop at the iteration limit.
IterationLimit ==
    /\ pc = "loop"
    /\ tool_iterations >= MAX_TOOL_ITERATIONS
    /\ conversation' =
          recover_conversation(trim_if_needed(conversation, last_input_tokens))
    /\ stop_reason_str' = "iteration_limit"
    /\ pc' = "stop"
    /\ UNCHANGED <<session, turn, counters, attempt, blocks, batch, convergence,
                   calls, rare, history>>

\* A Permanent fault handled like a Transient one.
ApiPermanent_Retried ==
    /\ pc = "api"
    /\ attempt < MAX_RETRIES
    /\ \E e \in ApiFaults(attempt > 0 \/ RareLeft > 0) :
         /\ classify_error(e) = "Permanent"
         /\ api_log' = [attempt |-> attempt, error |-> <<e>>, class |-> classify_error(e),
                        delay |-> RetryDelay(e, attempt)]
    /\ attempt' = attempt + 1
    /\ rare' = IF attempt = 0 THEN rare + 1 ELSE rare
    /\ UNCHANGED <<session, conversation, turn, pc, counters, stop_reason_str, blocks,
                   batch, convergence, calls, last_call, stop_calls, stop_arg,
                   sent_messages, api_result, last_post, sse,
                   classified>>

\* send_message fails with a Permanent fault.
ApiPermanent ==
    /\ pc = "api"
    /\ \E e \in ApiFaults(attempt > 0 \/ RareLeft > 0) :
         /\ classify_error(e) = "Permanent"
         /\ api_log' = [attempt |-> attempt, error |-> <<e>>, class |-> classify_error(e),
                        delay |-> -1]
    /\ conversation' = recover_conversation(conversation)
    /\ stop_reason_str' = "api_error"
    /\ pc' = "stop"
    /\ rare' = IF attempt = 0 THEN rare + 1 ELSE rare
    /\ UNCHANGED <<session, turn, counters, attempt, blocks, batch, convergence,
                   calls, last_call, stop_calls, stop_arg,
                   sent_messages, api_result, last_post, sse,
                   classified>>

\* send_message fails with a Transient fault and no attempt is left.
ApiExhausted ==
    /\ pc = "api"
    /\ attempt >= MAX_RETRIES
    /\ \E e \in ApiFaults(attempt > 0 \/ RareLeft > 0) :
         /\ classify_error(e) # "Permanent"
         /\ api_log' = [attempt |-> attempt, error |-> <<e>>, class |-> classify_error(e),
                        delay |-> -1]
    /\ conversation' = recover_conversation(conversation)
    /\ stop_reason_str' = "api_error"
    /\ pc' = "stop"
    /\ rare' = IF attempt = 0 THEN rare + 1 ELSE rare
    /\ UNCHANGED <<session, turn, counters, attempt, blocks, batch, convergence,
                   calls, last_call, stop_calls, stop_arg,
                   sent_messages, api_result, last_post, sse,
                   classified>>

\* A retry that does not count the attempt: the loop has no last attempt.
ApiRetry_NoCount ==
    /\ pc = "api"
    /\ attempt < MAX_RETRIES
    /\ \E e \in ApiFaults(attempt > 0 \/ RareLeft > 0 \/ api_log.error # <<>>) :
         /\ classify_error(e) # "Permanent"
         /\ api_log' = [attempt |-> attempt, error |-> <<e>>, class |-> classify_error(e),
                        delay |-> RetryDelay(e, attempt)]
    /\ rare' = IF api_log.error = <<>> THEN rare + 1 ELSE rare
    /\ UNCHANGED <<session, conversation, turn, pc, counters, stop_reason_str, attempt,
                   blocks, batch, convergence, calls, last_call, stop_calls, stop_arg,
                   sent_messages, api_result, last_post, sse,
                   classified>>

\* A failed attempt that is charged to the token total before the retry.
ApiRetry_CountsTokens ==
    /\ pc = "api"
    /\ attempt < MAX_RETRIES
    /\ \E e \in ApiFaults(attempt > 0 \/ RareLeft > 0) :
         /\ classify_error(e) # "Permanent"
         /\ api_log' = [attempt |-> attempt, error |-> <<e>>, class |-> classify_error(e),
                        delay |-> RetryDelay(e, attempt)]
    /\ attempt' = attempt + 1
    /\ total_tokens' = total_tokens + 10
    /\ rare' = IF attempt = 0 THEN rare + 1 ELSE rare
    /\ UNCHANGED <<session, conversation, turn, pc, tool_iterations, continuation_count,
                   last_input_tokens, consecutive_block_count, total_block_count,
                   stop_reason_str, blocks,
                   batch, convergence, calls, last_call, stop_calls, stop_arg,
                   sent_messages, api_result, last_post, sse,
                   classified>>

\* send_message fails with a Transient fault: sleep, then the next attempt.
ApiRetry ==
    /\ pc = "api"
    /\ attempt < MAX_RETRIES
    /\ \E e \in ApiFaults(attempt > 0 \/ RareLeft > 0) :
         /\ classify_error(e) # "Permanent"
         /\ api_log' = [attempt |-> attempt, error |-> <<e>>, class |-> classify_error(e),
                        delay |-> RetryDelay(e, attempt)]
    /\ attempt' = attempt + 1
    /\ rare' = IF attempt = 0 THEN rare + 1 ELSE rare
    /\ UNCHANGED <<session, conversation, turn, pc, counters, stop_reason_str, blocks,
                   batch, convergence, calls, last_call, stop_calls, stop_arg,
                   sent_messages, api_result, last_post, sse,
                   classified>>

\* The ToolUse blocks of the response, in order (main.rs, filter_map).
CollectToolUses(bs) == SelectSeq(bs, IsToolUse)

\* A batch taken as pure as soon as one of its tools is.
AllPure_AnyPure(tus) ==
    tus # <<>> /\ \E k \in 1..Len(tus) : tool_effect(tus[k].name) = "Pure"

AllPure(tus) ==
    tus # <<>> /\ \A k \in 1..Len(tus) : tool_effect(tus[k].name) = "Pure"

\* What the stop-reason branch decides for a response: "end", "break_empty",
\* "continue", "break_cap" or "dispatch".
Branch(stop_reason, bs, cont) ==
    IF stop_reason = "EndTurn" THEN "end"
    ELSE IF stop_reason = "MaxTokens"
         THEN CASE classify_max_tokens(bs, cont) = "BreakEmpty" -> "break_empty"
                [] classify_max_tokens(bs, cont) = "DispatchTools" -> "dispatch"
                [] classify_max_tokens(bs, cont) = "Continue" -> "continue"
                [] OTHER -> "break_cap"
         ELSE "dispatch"

\* send_message succeeds: token tracking, the assistant message, the branch and,
\* for tool dispatch, the classification of the batch.
ApiOk ==
    /\ pc = "api"
    /\ \E r \in ResponsesOf(profile, calls) :
         LET bs == IF r.stop_reason = "MaxTokens"
                   THEN filter_null_input_tool_use(r.blocks) ELSE r.blocks
             br == Branch(r.stop_reason, bs, continuation_count)
             tus == CollectToolUses(bs)
             withMsg == Append(conversation, Message("assistant", bs))
         IN  /\ api_result' = r
             /\ last_post' = <<>>
             /\ sse' = sse
             /\ classified' = classified
             /\ last_input_tokens' = r.usage.input_tokens
             /\ total_tokens' = total_tokens + r.usage.input_tokens + r.usage.output_tokens
             /\ blocks' = bs
             /\ conversation' =
                   IF br = "continue"
                   THEN Append(withMsg,
                               Message("user", <<Text("Continue from where you left off.")>>))
                   ELSE withMsg
             /\ continuation_count' =
                   IF br = "continue" THEN continuation_count + 1 ELSE continuation_count
             /\ stop_reason_str' =
                   CASE br = "end" -> "end_turn"
                     [] br \in {"break_empty", "break_cap"} -> "continuation_cap"
                     [] OTHER -> stop_reason_str
             /\ tool_uses' = IF br = "dispatch" THEN tus ELSE <<>>
             /\ slots' = IF br = "dispatch" /\ AllPure(tus)
                         THEN [k \in 1..Len(tus) |-> <<>>] ELSE <<>>
             /\ blocked_flags' = IF br = "dispatch" /\ AllPure(tus)
                                 THEN [k \in 1..Len(tus) |-> FALSE] ELSE <<>>
             /\ workers' = IF br = "dispatch" /\ AllPure(tus)
                           THEN [k \in 1..Len(tus) |-> [st |-> "none"]] ELSE <<>>
             /\ pc' = CASE br \in {"end", "break_empty", "break_cap"} -> "stop"
                        [] br = "continue" -> "loop"
                        [] AllPure(tus) -> "par"
                        [] tus = <<>> -> "batch_end"
                        [] OTHER -> "seq"
    /\ i' = 1
    /\ spawn_futures' = <<>>
    /\ signal_break' = FALSE /\ threshold_tripped' = FALSE /\ threshold_reason' = ""
    /\ tool_results' = <<>>
    /\ api_log' = [attempt |-> attempt, error |-> <<>>, class |-> "", delay |-> -1]
    /\ calls' = IF calls < MaxCalls THEN calls + 1 ELSE calls
    /\ last_call' = <<>>
    /\ UNCHANGED <<session, turn, tool_iterations, consecutive_block_count,
                   total_block_count, attempt, convergence, rare, stop_calls, stop_arg>>
    /\ sent_messages' = conversation

\* A decision that forgets to reset the consecutive count.
BlockCounts_NoReset(result, consecutive, total) ==
    IF result = "Block" THEN <<consecutive + 1, total + 1>> ELSE <<consecutive, total>>

\* The two block counters after a PreToolUse decision: <<consecutive, total>>.
BlockCounts(result, consecutive, total) ==
    IF result = "Block" THEN <<consecutive + 1, total + 1>> ELSE <<0, total>>

\* ---- answers of the hooks for one runner call
PreCall(tool, fg, fo) == run_pre_tool_use(hooks, tool, Answers(Len(hooks), fg, fo))

\* Hooks that are not run give no answer (the canonical one stands for it), and
\* the rare answers among those that run fit the budget.
PreRare(pre, fg, fo) ==
    RareAmong(Range(pre.guards), fg) + RareAmong(DOMAIN fo, fo)

PreAnswersOk(pre, fg, fo) ==
    /\ \A k \in DOMAIN fg : k \notin Range(pre.guards) => fg[k] = OutAllow
    /\ PreRare(pre, fg, fo) <= RareLeft

GuardSet(tool) == Range(GuardHooks(hooks, tool))
ObserveSet(tool) == Range(ObserveHooks(hooks, tool))
PostSet(tool) == Range(PostHooks(hooks, tool))

CallRecord(tu, pre, fg, fo, invoked) ==
    << [id |-> tu.id, name |-> tu.name, index |-> i,
        guards |-> pre.guards,
        guard_outs |-> [j \in 1..Len(pre.guards) |-> fg[pre.guards[j]]],
        observes |-> pre.observes,
        observe_outs |-> [j \in 1..Len(pre.observes) |-> fo[pre.observes[j]]],
        observe_input |-> pre.observe_input,
        result |-> pre.result, reason |-> pre.reason, blocked_by |-> pre.blocked_by,
        invoked |-> invoked] >>

\* ---- all-pure batch: parallel path
\* A block with null input gets an error slot and nothing else.
ParNull ==
    /\ pc = "par"
    /\ tool_uses[i].input = "null"
    /\ slots' = [slots EXCEPT ![i] =
                   <<ToolResult(tool_uses[i].id, <<"null input (truncated tool_use)">>, TRUE)>>]
    /\ i' = i + 1
    /\ pc' = IF i = Len(tool_uses) THEN "join" ELSE "par"
    /\ last_call' = <<>>
    /\ UNCHANGED <<session, conversation, turn, counters, stop_reason_str, attempt, blocks,
                   tool_uses, blocked_flags, spawn_futures, workers, signal_break,
                   threshold_tripped, threshold_reason, tool_results, convergence, calls,
                   rare, api_log, stop_calls, stop_arg,
                   sent_messages, api_result, last_post, sse,
                   classified>>

\* PreToolUse blocks the block: error slot, counters, thresholds.
ParBlock ==
    /\ pc = "par"
    /\ tool_uses[i].input # "null"
    /\ \E fg \in [GuardSet(tool_uses[i].name) -> GuardOuts(RareLeft)],
          fo \in [ObserveSet(tool_uses[i].name) -> ObserveOuts(RareLeft)] :
         \E pre \in {PreCall(tool_uses[i].name, fg, fo)} :
         LET tu == tool_uses[i]
             trip == BlockThreshold(consecutive_block_count + 1, total_block_count + 1)
         IN  /\ PreAnswersOk(pre, fg, fo)
             /\ pre.result = "Block"
             /\ slots' = [slots EXCEPT ![i] = <<ToolResult(tu.id, pre.reason, TRUE)>>]
             /\ blocked_flags' = [blocked_flags EXCEPT ![i] = TRUE]
             /\ consecutive_block_count' =
                   BlockCounts(pre.result, consecutive_block_count, total_block_count)[1]
             /\ total_block_count' =
                   BlockCounts(pre.result, consecutive_block_count, total_block_count)[2]
             /\ threshold_tripped' = (trip # "")
             /\ threshold_reason' = trip
             /\ pc' = IF trip # "" \/ i = Len(tool_uses) THEN "join" ELSE "par"
             /\ rare' = rare + PreRare(pre, fg, fo)
             /\ last_call' = CallRecord(tu, pre, fg, fo, FALSE)
    /\ i' = i + 1
    /\ UNCHANGED <<session, conversation, turn, tool_iterations, continuation_count,
                   last_input_tokens, total_tokens, stop_reason_str, attempt, blocks,
                   tool_uses, spawn_futures, workers, signal_break, tool_results,
                   convergence, calls, api_log, stop_calls, stop_arg,
                   sent_messages, api_result, last_post, sse,
                   classified>>

\* PreToolUse allows the block: a worker is spawned for it.
ParAllow ==
    /\ pc = "par"
    /\ tool_uses[i].input # "null"
    /\ \E fg \in [GuardSet(tool_uses[i].name) -> GuardOuts(RareLeft)],
          fo \in [ObserveSet(tool_uses[i].name) -> ObserveOuts(RareLeft)] :
         \E pre \in {PreCall(tool_uses[i].name, fg, fo)} :
         LET tu == tool_uses[i]
         IN  /\ PreAnswersOk(pre, fg, fo)
             /\ pre.result = "Allow"
             /\ rare' = rare + PreRare(pre, fg, fo)
             /\ last_call' = CallRecord(tu, pre, fg, fo, TRUE)
    /\ consecutive_block_count' =
          BlockCounts("Allow", consecutive_block_count, total_block_count)[1]
    /\ spawn_futures' = Append(spawn_futures, i)
    /\ workers' = [workers EXCEPT ![i] = [st |-> "running"]]
    /\ i' = i + 1
    /\ pc' = IF i = Len(tool_uses) THEN "join" ELSE "par"
    /\ UNCHANGED <<session, conversation, turn, tool_iterations, continuation_count,
                   last_input_tokens, total_block_count, total_tokens, stop_reason_str,
                   attempt, blocks, tool_uses, slots, blocked_flags, signal_break,
                   threshold_tripped, threshold_reason, tool_results, convergence, calls,
                   api_log, stop_calls, stop_arg,
                   sent_messages, api_result, last_post, sse,
                   classified>>

\* A spawned worker (spawn_blocking) runs dispatch_tool to its end, or panics.
WorkerFinish ==
    /\ pc \in {"par", "join"}
    /\ \E k \in Range(spawn_futures), o \in WorkerOutcomes(RareLeft) :
         /\ workers[k].st = "running"
         /\ workers' = [workers EXCEPT ![k] =
               IF o = "panic" THEN [st |-> "panicked"]
               ELSE [st |-> "done",
                     block |-> ResultBlock(tool_uses[k].id,
                                  dispatch_tool(tool_uses[k].name, o))]]
         /\ rare' = IF o = "ok" THEN rare ELSE rare + 1
    /\ UNCHANGED <<session, conversation, turn, pc, counters, stop_reason_str, attempt,
                   blocks, tool_uses, i, slots, blocked_flags, spawn_futures, signal_break,
                   threshold_tripped, threshold_reason, tool_results, convergence, calls,
                   history>>

\* The panic result built with the id of the first block of the batch.
Joined_PanicFirstId(k) ==
    IF workers[k].st = "panicked"
    THEN ToolResult(tool_uses[1].id, <<"tool panicked">>, TRUE)
    ELSE workers[k].block

\* What join_all yields for the worker of slot k.
Joined(k) ==
    IF workers[k].st = "panicked"
    THEN ToolResult(tool_uses[k].id, <<"tool panicked">>, TRUE)
    ELSE workers[k].block

\* After a trip the handles are dropped instead of awaited.
Join_DetachOnTrip ==
    /\ pc = "join"
    /\ threshold_tripped \/ \A k \in Range(spawn_futures) : workers[k].st \in {"done", "panicked"}
    /\ slots' = [k \in 1..Len(slots) |->
                   IF k \in Range(spawn_futures) /\ ~threshold_tripped
                   THEN <<Joined(k)>> ELSE slots[k]]
    /\ workers' = [k \in 1..Len(workers) |->
                   IF k \in Range(spawn_futures) /\ ~threshold_tripped
                   THEN [st |-> "joined"] ELSE workers[k]]
    /\ i' = 1
    /\ pc' = IF threshold_tripped THEN "batch_end" ELSE "post"
    /\ UNCHANGED <<session, conversation, turn, counters, stop_reason_str, attempt, blocks,
                   tool_uses, blocked_flags, spawn_futures, signal_break, threshold_tripped,
                   threshold_reason, tool_results, convergence, calls, rare, history>>

\* join_all over the spawned workers, on the normal path and after a trip.
Join ==
    /\ pc = "join"
    /\ \A k \in Range(spawn_futures) : workers[k].st \in {"done", "panicked"}
    /\ slots' = [k \in 1..Len(slots) |->
                   IF k \in Range(spawn_futures) THEN <<Joined(k)>> ELSE slots[k]]
    /\ workers' = [k \in 1..Len(workers) |->
                   IF k \in Range(spawn_futures) THEN [st |-> "joined"] ELSE workers[k]]
    /\ i' = 1
    /\ pc' = IF threshold_tripped THEN "batch_end" ELSE "post"
    /\ UNCHANGED <<session, conversation, turn, counters, stop_reason_str, attempt, blocks,
                   tool_uses, blocked_flags, spawn_futures, signal_break, threshold_tripped,
                   threshold_reason, tool_results, convergence, calls, rare, history>>

Unwrap(ss) == [k \in 1..Len(ss) |-> ss[k][1]]

PostCall(tool, fp) == run_post_tool_use(hooks, tool, Answers(Len(hooks), fp, <<>>), tool_iterations)

AfterPost(file, post) ==
    IF post.observations # <<>> THEN write_observations(file, post.observations) ELSE file

\* What one run_post_tool_use call did: the hooks run, their answers, the
\* outcome, and the observations of the file before and after.
PostRecord(tool, post, fp, file) ==
    << [name |-> tool, ran |-> post.ran,
        outs |-> [j \in 1..Len(post.ran) |-> fp[post.ran[j]]],
        result |-> post.result, signal |-> post.signal,
        before |-> file.observations,
        after |-> AfterPost(file, post).observations] >>

\* PostToolUse loop of the parallel path: a blocked slot is passed over.
PostSkip ==
    /\ pc = "post"
    /\ blocked_flags[i]
    /\ i' = i + 1
    /\ tool_results' = IF i = Len(tool_uses) THEN Unwrap(slots) ELSE tool_results
    /\ pc' = IF i = Len(tool_uses) THEN "batch_end" ELSE "post"
    /\ UNCHANGED <<session, conversation, turn, counters, stop_reason_str, attempt, blocks,
                   tool_uses, slots, blocked_flags, spawn_futures, workers, signal_break,
                   threshold_tripped, threshold_reason, convergence, calls, rare, history>>

\* A PostToolUse loop that runs no more hooks once one has signalled.
PostRun_QuietAfterSignal ==
    /\ pc = "post"
    /\ ~blocked_flags[i]
    /\ \E fp \in [PostSet(tool_uses[i].name) -> PostOuts(RareLeft)] :
         \E post \in {PostCall(tool_uses[i].name, fp)} :
             /\ RareAmong(DOMAIN fp, fp) <= RareLeft
             /\ rare' = IF signal_break THEN rare ELSE rare + RareAmong(DOMAIN fp, fp)
             /\ signal_break' = (signal_break \/ post.result = "Signal")
             /\ convergence' = IF signal_break THEN convergence
                               ELSE AfterPost(convergence, post)
             /\ last_post' = IF signal_break THEN last_post
                             ELSE PostRecord(tool_uses[i].name, post, fp, convergence)
             /\ sse' = sse
             /\ classified' = classified
    /\ i' = i + 1
    /\ tool_results' = IF i = Len(tool_uses) THEN Unwrap(slots) ELSE tool_results
    /\ pc' = IF i = Len(tool_uses) THEN "batch_end" ELSE "post"
    /\ UNCHANGED <<session, conversation, turn, counters, stop_reason_str, attempt, blocks,
                   tool_uses, slots, blocked_flags, spawn_futures, workers,
                   threshold_tripped, threshold_reason, calls, api_log, last_call,
                   stop_calls, stop_arg, sent_messages, api_result>>

\* PostToolUse loop of the parallel path: the hooks run for a slot not blocked.
PostRun ==
    /\ pc = "post"
    /\ ~blocked_flags[i]
    /\ \E fp \in [PostSet(tool_uses[i].name) -> PostOuts(RareLeft)] :
         \E post \in {PostCall(tool_uses[i].name, fp)} :
             /\ RareAmong(DOMAIN fp, fp) <= RareLeft
             /\ rare' = rare + RareAmong(DOMAIN fp, fp)
             /\ signal_break' = (signal_break \/ post.result = "Signal")
             /\ convergence' = AfterPost(convergence, post)
             /\ last_post' = PostRecord(tool_uses[i].name, post, fp, convergence)
             /\ sse' = sse
             /\ classified' = classified
    /\ i' = i + 1
    /\ tool_results' = IF i = Len(tool_uses) THEN Unwrap(slots) ELSE tool_results
    /\ pc' = IF i = Len(tool_uses) THEN "batch_end" ELSE "post"
    /\ UNCHANGED <<session, conversation, turn, counters, stop_reason_str, attempt, blocks,
                   tool_uses, slots, blocked_flags, spawn_futures, workers,
                   threshold_tripped, threshold_reason, calls, api_log, last_call,
                   stop_calls, stop_arg, sent_messages, api_result>>

\* ---- mixed or mutating batch: sequential path
\* A block with null input is passed over.
SeqNull ==
    /\ pc = "seq"
    /\ tool_uses[i].input = "null"
    /\ i' = i + 1
    /\ pc' = IF i = Len(tool_uses) THEN "batch_end" ELSE "seq"
    /\ last_call' = <<>>
    /\ UNCHANGED <<session, conversation, turn, counters, stop_reason_str, attempt, blocks,
                   tool_uses, slots, blocked_flags, spawn_futures, workers, signal_break,
                   threshold_tripped, threshold_reason, tool_results, convergence, calls,
                   rare, api_log, stop_calls, stop_arg,
                   sent_messages, api_result, last_post, sse,
                   classified>>

\* PreToolUse blocks the block: error result, counters, thresholds.
SeqBlock ==
    /\ pc = "seq"
    /\ tool_uses[i].input # "null"
    /\ \E fg \in [GuardSet(tool_uses[i].name) -> GuardOuts(RareLeft)],
          fo \in [ObserveSet(tool_uses[i].name) -> ObserveOuts(RareLeft)] :
         \E pre \in {PreCall(tool_uses[i].name, fg, fo)} :
         LET tu == tool_uses[i]
             trip == BlockThreshold(consecutive_block_count + 1, total_block_count + 1)
         IN  /\ PreAnswersOk(pre, fg, fo)
             /\ pre.result = "Block"
             /\ tool_results' = Append(tool_results, ToolResult(tu.id, pre.reason, TRUE))
             /\ consecutive_block_count' =
                   BlockCounts(pre.result, consecutive_block_count, total_block_count)[1]
             /\ total_block_count' =
                   BlockCounts(pre.result, consecutive_block_count, total_block_count)[2]
             /\ threshold_tripped' = (trip # "")
             /\ threshold_reason' = trip
             /\ pc' = IF trip # "" \/ i = Len(tool_uses) THEN "batch_end" ELSE "seq"
             /\ rare' = rare + PreRare(pre, fg, fo)
             /\ last_call' = CallRecord(tu, pre, fg, fo, FALSE)
    /\ i' = i + 1
    /\ UNCHANGED <<session, conversation, turn, tool_iterations, continuation_count,
                   last_input_tokens, total_tokens, stop_reason_str, attempt, blocks,
                   tool_uses, slots, blocked_flags, spawn_futures, workers, signal_break,
                   convergence, calls, api_log, stop_calls, stop_arg,
                   sent_messages, api_result, last_post, sse,
                   classified>>

\* PreToolUse allows the block: the tool is invoked, PostToolUse runs, the result
\* is pushed.
SeqAllow ==
    /\ pc = "seq"
    /\ tool_uses[i].input # "null"
    /\ \E fg \in [GuardSet(tool_uses[i].name) -> GuardOuts(RareLeft)],
          fo \in [ObserveSet(tool_uses[i].name) -> ObserveOuts(RareLeft)],
          o \in ToolOutcomes(RareLeft),
          fp \in [PostSet(tool_uses[i].name) -> PostOuts(RareLeft)] :
         \E pre \in {PreCall(tool_uses[i].name, fg, fo)} :
         LET tu == tool_uses[i]
             used == PreRare(pre, fg, fo) + (IF o = "ok" THEN 0 ELSE 1)
                     + RareAmong(DOMAIN fp, fp)
             res == dispatch_tool(tu.name, o)
         IN  \E post \in {PostCall(tu.name, fp)} :
             /\ PreAnswersOk(pre, fg, fo)
             /\ pre.result = "Allow"
             /\ used <= RareLeft
             /\ rare' = rare + used
             /\ signal_break' = (signal_break \/ post.result = "Signal")
             /\ convergence' = AfterPost(convergence, post)
             /\ tool_results' = Append(tool_results, ResultBlock(tu.id, res))
             /\ last_call' = CallRecord(tu, pre, fg, fo, TRUE)
             /\ last_post' = PostRecord(tu.name, post, fp, convergence)
             /\ sse' = sse
             /\ classified' = classified
    /\ consecutive_block_count' =
          BlockCounts("Allow", consecutive_block_count, total_block_count)[1]
    /\ i' = i + 1
    /\ pc' = IF i = Len(tool_uses) THEN "batch_end" ELSE "seq"
    /\ UNCHANGED <<session, conversation, turn, tool_iterations, continuation_count,
                   last_input_tokens, total_block_count, total_tokens, stop_reason_str,
                   attempt, blocks, tool_uses, slots, blocked_flags, spawn_futures, workers,
                   threshold_tripped, threshold_reason, calls, api_log, stop_calls,
                   stop_arg,
                   sent_messages, api_result>>

\* ---- after the batch
\* The loop is left on a trip with the assistant message still in place.
BatchTripped_NoPop ==
    /\ pc = "batch_end"
    /\ threshold_tripped
    /\ stop_reason_str' = threshold_reason
    /\ pc' = "stop"
    /\ UNCHANGED <<session, conversation, turn, counters, attempt, blocks, batch,
                   convergence, calls, rare, history>>

\* After a trip a signal of the same batch still decides the tag.
BatchTripped_SignalFirst ==
    /\ pc = "batch_end"
    /\ threshold_tripped
    /\ conversation' = Pop(conversation)
    /\ stop_reason_str' = IF signal_break THEN "convergence_signal" ELSE threshold_reason
    /\ pc' = "stop"
    /\ UNCHANGED <<session, turn, counters, attempt, blocks, batch, convergence, calls,
                   rare, history>>

\* A threshold tripped: the assistant message is popped and the loop is left.
BatchTripped ==
    /\ pc = "batch_end"
    /\ threshold_tripped
    /\ conversation' = Pop(conversation)
    /\ stop_reason_str' = threshold_reason
    /\ pc' = "stop"
    /\ UNCHANGED <<session, turn, counters, attempt, blocks, batch, convergence, calls,
                   rare, history>>

\* No result at all: the loop is left with the tag as it stands.
BatchEmpty ==
    /\ pc = "batch_end"
    /\ ~threshold_tripped
    /\ tool_results = <<>>
    /\ pc' = "stop"
    /\ UNCHANGED <<session, conversation, turn, counters, stop_reason_str, attempt, blocks,
                   batch, convergence, calls, rare, history>>

\* The signal returns from run_turn at once, past run_stop.
BatchDone_ReturnsOnSignal ==
    /\ pc = "batch_end"
    /\ ~threshold_tripped
    /\ tool_results # <<>>
    /\ conversation' = Append(conversation, Message("user", tool_results))
    /\ tool_iterations' = tool_iterations + 1
    /\ stop_reason_str' = IF signal_break THEN "convergence_signal" ELSE stop_reason_str
    /\ pc' = IF signal_break THEN "idle" ELSE "loop"
    /\ UNCHANGED <<session, turn, continuation_count, last_input_tokens,
                   consecutive_block_count, total_block_count, total_tokens, attempt,
                   blocks, batch, convergence, calls, rare, history>>

\* The results are pushed and the signal is not looked at.
BatchDone_IgnoresSignal ==
    /\ pc = "batch_end"
    /\ ~threshold_tripped
    /\ tool_results # <<>>
    /\ conversation' = Append(conversation, Message("user", tool_results))
    /\ tool_iterations' = tool_iterations + 1
    /\ pc' = "loop"
    /\ UNCHANGED <<session, turn, continuation_count, last_input_tokens,
                   consecutive_block_count, total_block_count, total_tokens, attempt,
                   blocks, batch, convergence, calls, rare, history, stop_reason_str>>

\* The results become one user message; a signal ends the loop.
BatchDone ==
    /\ pc = "batch_end"
    /\ ~threshold_tripped
    /\ tool_results # <<>>
    /\ conversation' = Append(conversation, Message("user", tool_results))
    /\ tool_iterations' = tool_iterations + 1
    /\ stop_reason_str' = IF signal_break THEN "convergence_signal" ELSE stop_reason_str
    /\ pc' = IF signal_break THEN "stop" ELSE "loop"
    /\ UNCHANGED <<session, turn, continuation_count, last_input_tokens,
                   consecutive_block_count, total_block_count, total_tokens, attempt,
                   blocks, batch, convergence, calls, rare, history>>

\* run_stop: the Stop hooks, then the final entry of the convergence file.
RunStop ==
    /\ pc = "stop"
    /\ \E fs \in [Range(StopHooks(hooks)) -> StopOuts(RareLeft)] :
         \E st \in {run_stop(hooks, fs, convergence, stop_reason_str, tool_iterations,
                             total_tokens)} :
             /\ RareAmong(DOMAIN fs, fs) <= RareLeft
             /\ rare' = rare + RareAmong(DOMAIN fs, fs)
             /\ convergence' = st.file
             /\ stop_arg' = [reason |-> stop_reason_str, tool_iterations |-> tool_iterations,
                             total_tokens |-> total_tokens, ran |-> st.ran, outs |-> st.outs]
    /\ stop_calls' = stop_calls + 1
    /\ sent_messages' = sent_messages
    /\ api_result' = api_result
    /\ last_post' = last_post
    /\ sse' = sse
    /\ classified' = classified
    /\ api_log' = NoApi
    /\ last_call' = <<>>
    /\ pc' = "idle"
    /\ UNCHANGED <<session, conversation, turn, counters, stop_reason_str, attempt, blocks,
                   batch, calls>>

Next ==
    \/ StartTurn
    \/ LoopTop
    \/ IterationLimit
    \/ ApiOk
    \/ ApiPermanent
    \/ ApiExhausted
    \/ ApiRetry
    \/ ParNull
    \/ ParBlock
    \/ ParAllow
    \/ WorkerFinish
    \/ Join
    \/ PostSkip
    \/ PostRun
    \/ SeqNull
    \/ SeqBlock
    \/ SeqAllow
    \/ BatchTripped
    \/ BatchEmpty
    \/ BatchDone
    \/ RunStop

Spec == Init /\ [][Next]_vars

\* The same machine where a running turn keeps taking steps: send_message
\* returns (reqwest timeouts), hooks return (subprocess timeout), tools and
\* workers return, the sleep of a retry ends. Nothing obliges a new prompt.
Running == pc # "idle" /\ Next

FairSpec == Spec /\ WF_vars(Running)

\* ------------------------------------------------------- parse_sse_stream
\* One call of parse_sse_stream on each stream the server may send, the
\* transport delivering the bytes in chunks of any length.
SseInit ==
    /\ ControllerInit
    /\ sse \in {SseCall(bytes) : bytes \in SseStreams}
    /\ classified = NoFault

controller == <<session, conversation, turn, pc, counters, stop_reason_str, attempt, blocks,
                batch, convergence, calls, rare, api_log, last_call, stop_calls, stop_arg,
                sent_messages, api_result, last_post>>

\* stream.next() yields a chunk: one pass of the outer loop.  An error event
\* makes the function return before the next chunk is asked for.
SseChunk ==
    /\ sse.result = <<>>
    /\ sse.rest # <<>>
    /\ \E n \in 1..Len(sse.rest) :
         \E st \in {FeedChunk(sse.st, SubSeq(sse.rest, 1, n))} :
           sse' = [sse EXCEPT !.rest = SubSeq(@, n + 1, Len(@)),
                              !.st = st,
                              !.result = IF st.err # <<>> THEN <<SseReturn(st)>> ELSE <<>>]
    /\ UNCHANGED <<controller, classified>>

\* stream.next() yields an error: map_err and `?` return StreamTransient.
SseTransportError ==
    /\ sse.result = <<>>
    /\ sse.input # <<>>
    /\ sse' = [sse EXCEPT !.result = <<[ok |-> FALSE, error |-> StreamTransient]>>,
                          !.transport = TRUE]
    /\ UNCHANGED <<controller, classified>>

\* stream.next() yields None: the code after the loop.
SseEnd ==
    /\ sse.result = <<>>
    /\ sse.input # <<>>
    /\ sse.rest = <<>>
    /\ sse' = [sse EXCEPT !.result = <<SseReturn(sse.st)>>]
    /\ UNCHANGED <<controller, classified>>

SseNext ==
    \/ SseChunk
    \/ SseTransportError
    \/ SseEnd

SseSpec == SseInit /\ [][SseNext]_vars

\* --------------------------------------------------------- classify_error
\* The statuses send_message turns into HttpError: StatusCode holds 100..999
\* and is_success is 200..299.
HttpStatuses == (100..199) \cup (300..999)
\* Option<u64> of the retry-after header, -1 for None.
RetryAfters == {-1, 0, 30, 120}

AgentErrors ==
    {HttpError(status, -1) : status \in HttpStatuses}
    \cup {HttpError(status, ra) : status \in {429, 503, 529, 500, 400}, ra \in RetryAfters}
    \cup {StreamTransient, StreamParse, JsonError}
    \cup {ApiError(how) : how \in {"timeout", "connect", "other"}}

\* One fault of each kind is handed to classify_error.
ClassifyInit ==
    /\ ControllerInit
    /\ sse = SseIdle
    /\ classified \in {[error |-> <<e>>, class |-> <<>>] : e \in AgentErrors}

Classify ==
    /\ classified.error # <<>>
    /\ classified.class = <<>>
    /\ classified' = [classified EXCEPT !.class = <<classify_error(classified.error[1])>>]
    /\ UNCHANGED <<controller, sse>>

ClassifyNext ==
    \/ Classify

ClassifySpec == ClassifyInit /\ [][ClassifyNext]_vars

\* ----------------------------------------------------------------- claims
\* A turn has exited: run_turn has returned at least once and none is running.
TurnExited == pc = "idle" /\ turn > 0

Alternates(ms) ==
    ms = <<>> \/ (/\ ms[1].role = "user"
                  /\ \A k \in 1..(Len(ms) - 1) : ms[k].role # ms[k + 1].role)

\* Every ToolUse of an assistant message is answered in the next message.
Answered(ms) ==
    \A k \in 1..Len(ms) : \A j \in 1..Len(ms[k].content) :
        (ms[k].role = "assistant" /\ IsToolUse(ms[k].content[j])) =>
            /\ k < Len(ms)
            /\ ms[k + 1].role = "user"
            /\ \E r \in 1..Len(ms[k + 1].content) :
                  /\ IsToolResult(ms[k + 1].content[r])
                  /\ ms[k + 1].content[r].tool_use_id = ms[k].content[j].id

\* C1: after every turn exits, whatever its stop tag, the conversation alternates
\* strictly user/assistant starting with user: the first message has role user
\* and no two adjacent messages have the same role.
C1_AlternatesAtExit == TurnExited => Alternates(conversation)

\* C2: after any turn exits, every ToolUse block of an assistant message is
\* answered by a ToolResult with the same id in the immediately following user
\* message; an assistant message with an unanswered ToolUse never remains.
C2_ToolUseAnsweredAtExit == TurnExited => Answered(conversation)

\* C3: every run_turn calls run_stop exactly once, after the inner loop has
\* exited and on every exit path, with one of the seven canonical tags: no call
\* while the turn runs, one call with a canonical tag once it has returned.
C3_StopOncePerTurn ==
    /\ (pc # "idle") => stop_calls = 0
    /\ TurnExited => (stop_calls = 1 /\ stop_arg.reason \in StopTags
                                     /\ stop_arg.reason = stop_reason_str)

C3_Witness == TurnExited /\ stop_arg.reason = "block_limit_consecutive"

\* C4: every turn terminates: once run_turn is entered, the inner loop exits and
\* the Stop hook fires, for every sequence of responses and failures.
C4_TurnTerminates == (pc # "idle") ~> (pc = "idle" /\ stop_calls = 1)

C4_Witness == TurnExited /\ stop_arg.reason = "iteration_limit" /\ tool_iterations = 50

\* The block that tool dispatch has just handled.
Called == last_call # <<>>
TheCall == last_call[1]

GuardFailedIn(c) == \E j \in 1..Len(c.guard_outs) : HookFailed(c.guard_outs[j])
GuardBlockedIn(c) ==
    \E j \in 1..Len(c.guard_outs) :
        ~HookFailed(c.guard_outs[j]) /\ c.guard_outs[j].action = "block"

\* The result recorded for the block just handled, on either path.
RecordedResult ==
    IF slots # <<>> THEN slots[TheCall.index][1] ELSE tool_results[Len(tool_results)]

\* C5: guard hooks fail closed: if a matching guard hook times out, exits
\* non-zero, fails to spawn or prints invalid JSON, the outcome is Block with a
\* reason starting with "hook failed:", passed through unwrapped into the error
\* result of the block, and the tool is not invoked (no worker, no output).
C5_GuardsFailClosed ==
    (Called /\ GuardFailedIn(TheCall)) =>
        /\ TheCall.result = "Block"
        /\ TheCall.reason[1] = "hook failed:"
        /\ ~TheCall.invoked
        /\ RecordedResult = ToolResult(TheCall.id, TheCall.reason, TRUE)
        /\ (slots # <<>>) => workers[TheCall.index].st = "none"

C5_Witness ==
    /\ Called
    /\ TheCall.guard_outs # <<>>
    /\ TheCall.guard_outs[Len(TheCall.guard_outs)] = OutTimeout
    /\ TheCall.reason[1] = "hook failed:"

\* C6 (as claimed): a tool is invoked only when a guard returned action "allow"
\* for that call, never when no guard gave an explicit allow decision.
C6_OnlyExplicitAllow ==
    (Called /\ TheCall.invoked) =>
        \E j \in 1..Len(TheCall.guard_outs) : TheCall.guard_outs[j] = OutAllow

\* C6 (amended): a tool is invoked exactly when no matching guard hook blocked
\* or failed: every matching guard was run and each returned an action other
\* than "block" ("allow" or anything else), which includes the case of no
\* matching guard at all.
C6_InvokedUnlessGuardBlocks ==
    Called =>
        /\ TheCall.invoked <=> ~(GuardFailedIn(TheCall) \/ GuardBlockedIn(TheCall))
        /\ TheCall.invoked => TheCall.guards = GuardHooks(hooks, TheCall.name)

C6_Witness ==
    /\ Called /\ TheCall.invoked
    /\ TheCall.guard_outs # <<>>
    /\ \A j \in 1..Len(TheCall.guard_outs) : TheCall.guard_outs[j] = OutOther

\* A step in which send_message fails on attempt index `attempt`.
ApiFailStep == pc = "api" /\ api_log'.error # <<>> /\ api_log'.attempt = attempt
                          /\ api_log.attempt # attempt

\* C7: at most 5 attempts per API call (attempt 0 plus 4 retries): a Transient
\* failure on attempts 0..3 is followed by a delay and one more attempt, a
\* Transient failure on attempt 4 by no further attempt, the recovery of the
\* conversation and the end of the turn with tag api_error.
C7_FiveAttempts ==
    [][ /\ (pc' = "api") => attempt' \in 0..4
        /\ (ApiFailStep /\ api_log'.class = "Transient") =>
              IF attempt <= 3
              THEN /\ pc' = "api" /\ attempt' = attempt + 1
                   /\ api_log'.delay >= 0
                   /\ conversation' = conversation
              ELSE /\ pc' = "stop" /\ stop_reason_str' = "api_error"
                   /\ api_log'.delay = -1
                   /\ conversation' = recover_conversation(conversation)
                   /\ Len(conversation') < Len(conversation) ]_vars

C7_Witness == pc = "stop" /\ api_log.attempt = 4 /\ api_log.class = "Transient"

\* C8: a failure classified Permanent on any attempt causes no delay and no
\* further attempt: the conversation is recovered and the turn ends with tag
\* api_error, with no tool dispatch and no PreToolUse/PostToolUse hook.
C8_PermanentEndsTurn ==
    [][ (ApiFailStep /\ api_log'.class = "Permanent") =>
            /\ api_log'.delay = -1
            /\ attempt' = attempt
            /\ pc' = "stop" /\ stop_reason_str' = "api_error"
            /\ conversation' = recover_conversation(conversation)
            /\ Len(conversation') < Len(conversation)
            /\ UNCHANGED <<batch, last_call, convergence, tool_iterations>> ]_vars

C8_Witness == pc = "stop" /\ api_log.class = "Permanent" /\ api_log.attempt = 2

\* C9: the delay before retry attempt+1 (attempt in 0..3) is min(retry_after, 60)
\* seconds when the failed attempt was an HTTP error carrying retry-after
\* (0 included), and otherwise [2,4,8,16][attempt]; never indexed outside 0..3.
C9_RetryDelay ==
    (api_log.error # <<>> /\ api_log.delay # -1) =>
        LET e == api_log.error[1]
            a == api_log.attempt
        IN  /\ a \in 0..3
            /\ api_log.delay =
                  IF e.kind = "HttpError" /\ e.retry_after # -1
                  THEN (IF e.retry_after <= 60 THEN e.retry_after ELSE 60)
                  ELSE <<2, 4, 8, 16>>[a + 1]

C9_Witness ==
    /\ api_log.error = <<HttpError(429, 120)>>
    /\ api_log.delay = 60
    /\ api_log.attempt = 3

\* A step in which PreToolUse has decided about a block.
PreStep == pc \in {"par", "seq"} /\ i' = i + 1 /\ last_call' # <<>>

\* C10: within a turn consecutive_block_count is set to 0 on every Allow and
\* grows by 1 on every Block, total_block_count grows by 1 on every Block and
\* never decreases; both are 0 when a turn starts and no other step of the turn
\* (the steps between batches included) changes them.
C10_BlockCounters ==
    [][ /\ (PreStep /\ last_call'[1].result = "Allow") =>
              consecutive_block_count' = 0 /\ total_block_count' = total_block_count
        /\ (PreStep /\ last_call'[1].result = "Block") =>
              /\ consecutive_block_count' = consecutive_block_count + 1
              /\ total_block_count' = total_block_count + 1
        /\ (turn' # turn) => consecutive_block_count' = 0 /\ total_block_count' = 0
        /\ (turn' = turn) => total_block_count' >= total_block_count
        /\ (turn' = turn /\ ~PreStep) =>
              UNCHANGED <<consecutive_block_count, total_block_count>> ]_vars

C10_Witness ==
    /\ tool_iterations >= 2
    /\ total_block_count >= 4
    /\ consecutive_block_count = 1

BlockStep == PreStep /\ last_call'[1].result = "Block"
BlockTags == {"block_limit_consecutive", "block_limit_total"}

\* C11: a block threshold trips exactly when, right after a Block, the
\* consecutive count is >= 3 or the total count is >= 10, on both dispatch
\* paths; the turn then exits with block_limit_consecutive or block_limit_total
\* respectively, block_limit_consecutive when both hold on the same block.
C11_ThresholdTrips ==
    [][ /\ BlockStep =>
              /\ threshold_tripped' =
                    (consecutive_block_count' >= 3 \/ total_block_count' >= 10)
              /\ threshold_tripped' =>
                    threshold_reason' = IF consecutive_block_count' >= 3
                                        THEN "block_limit_consecutive"
                                        ELSE "block_limit_total"
              /\ threshold_tripped' => pc' \in {"join", "batch_end"}
        /\ (~BlockStep /\ threshold_tripped') => threshold_tripped
        /\ (threshold_tripped /\ pc = "join") => pc' \in {"join", "batch_end"}
        /\ (threshold_tripped /\ pc = "batch_end") =>
              pc' = "stop" /\ stop_reason_str' = threshold_reason
        /\ (pc # "stop" /\ pc' = "stop" /\ stop_reason_str' \in BlockTags) =>
              threshold_tripped /\ pc = "batch_end"
        /\ (pc = "stop" /\ stop_reason_str \in BlockTags) =>
              pc' = "idle" /\ stop_arg'.reason = stop_reason_str ]_vars

\* Both limits reached on the same block, on the sequential path.
C11_Witness ==
    /\ TurnExited
    /\ stop_arg.reason = "block_limit_consecutive"
    /\ consecutive_block_count = 3 /\ total_block_count = 10

\* A batch that a threshold has cut short, until the loop is left.
TrippedBatch == threshold_tripped /\ pc \in {"join", "batch_end"}

\* C12: when a block threshold trips in the middle of a batch, the later blocks
\* get no PreToolUse hook and no tool invocation, the trailing assistant
\* message is popped, no tool-result message is appended and tool_iterations is
\* not incremented: the conversation is again the one that was sent.
C12_TripAbandonsBatch ==
    [][ /\ TrippedBatch =>
              /\ UNCHANGED <<last_call, spawn_futures, tool_results, convergence,
                             tool_iterations>>
              /\ \A k \in 1..Len(workers) :
                    workers[k].st = "none" => workers'[k].st = "none"
              /\ \A k \in (TheCall.index + 1)..Len(tool_uses) :
                    IF slots = <<>> THEN Len(tool_results) < k
                    ELSE slots[k] = <<>> /\ workers[k].st = "none"
              /\ conversation = Append(sent_messages, Message("assistant", blocks))
        /\ (TrippedBatch /\ pc = "join") => conversation' = conversation
        /\ (TrippedBatch /\ pc = "batch_end") =>
              /\ conversation' = sent_messages
              /\ pc' = "stop"
        /\ (pc = "stop" /\ stop_reason_str \in BlockTags) =>
              UNCHANGED <<conversation, tool_iterations>> ]_vars

\* A trip on the sequential path with a block of the batch still to come.
C12_Witness ==
    /\ TurnExited /\ stop_arg.reason \in BlockTags
    /\ slots = <<>> /\ i <= Len(tool_uses)
    /\ conversation = sent_messages /\ conversation # <<>>

Unfinished(k) == workers[k].st \in {"running", "done", "panicked"}

\* C13: in an all-pure batch every spawned worker has been joined before the
\* controller leaves the batch, on the normal path and after a threshold trip:
\* no worker is unjoined when the conversation is next changed or when the
\* Stop hook fires.
C13_WorkersJoined ==
    [][ /\ (pc' \notin {"par", "join"}) =>
              \A k \in 1..Len(workers') : workers'[k].st \in {"none", "joined"}
        /\ (conversation' # conversation \/ stop_calls' # stop_calls) =>
              \A k \in 1..Len(workers) : ~Unfinished(k)
        /\ (pc = "join" /\ pc' # "join") =>
              /\ \A k \in Range(spawn_futures) :
                    workers[k].st \in {"done", "panicked"} /\ workers'[k].st = "joined"
              /\ \A k \in 1..Len(workers) :
                    k \notin Range(spawn_futures) => workers'[k].st = "none" ]_vars

\* A batch left after a trip with a worker that had been spawned before it.
C13_Witness ==
    /\ pc = "stop" /\ threshold_tripped
    /\ \E k \in 1..Len(workers) : workers[k].st = "joined"

\* An all-pure batch whose results are being appended.
PureBatchDone ==
    /\ pc = "batch_end" /\ slots # <<>> /\ ~threshold_tripped
    /\ conversation' # conversation

\* C14: for an all-pure batch that completes without a trip the appended user
\* message holds exactly one ToolResult per ToolUse block of the batch, in block
\* order and with the matching id, whatever the order in which the workers
\* finish; a worker that panics fills its own slot with is_error = true and
\* "tool panicked", and the other slots are as their own workers left them.
C14_ParallelResultsInOrder ==
    [][ /\ PureBatchDone =>
              LET asked == SelectSeq(conversation[Len(conversation)].content, IsToolUse)
                  m == conversation'[Len(conversation')]
              IN  /\ conversation' = Append(conversation, m)
                  /\ conversation[Len(conversation)].role = "assistant"
                  /\ m.role = "user"
                  /\ Len(m.content) = Len(asked)
                  /\ \A k \in 1..Len(asked) :
                        /\ IsToolResult(m.content[k])
                        /\ m.content[k].tool_use_id = asked[k].id
                        /\ m.content[k] = slots[k][1]
        /\ (pc = "join" /\ pc' = "post") =>
              \A k \in 1..Len(tool_uses) :
                 slots'[k] =
                    IF k \notin Range(spawn_futures) THEN slots[k]
                    ELSE IF workers[k].st = "panicked"
                         THEN <<[type |-> "tool_result", tool_use_id |-> tool_uses[k].id,
                                 content |-> <<"tool panicked">>, is_error |-> TRUE]>>
                         ELSE <<workers[k].block>>
        /\ (pc = "post") => slots' = slots
        /\ \A k \in 1..Len(workers) :
              (k <= Len(workers') /\ workers[k].st = "done" /\ workers'[k].st = "done") =>
                  /\ workers'[k].block = workers[k].block
                  /\ workers[k].block.tool_use_id = tool_uses[k].id ]_vars

\* A two-block batch appended with the second worker panicked, the first not.
C14_Witness ==
    /\ pc = "loop" /\ slots # <<>> /\ Len(tool_uses) = 2
    /\ conversation[Len(conversation)].content =
          << [type |-> "tool_result", tool_use_id |-> "a", content |-> <<"output">>,
              is_error |-> FALSE],
             [type |-> "tool_result", tool_use_id |-> "b", content |-> <<"tool panicked">>,
              is_error |-> TRUE] >>

PureNames == {"Read", "Glob", "Grep"}
OnlyPureTools(tus) == \A j \in 1..Len(tus) : tus[j].name \in PureNames

\* C15: tool invocations overlap only inside a batch in which every tool is
\* Pure; in a batch with a Mutating or unknown tool no invocation is in flight
\* between two steps of the controller, and the blocks are handled in block
\* order, the tool and its PostToolUse having finished (the result is pushed)
\* before the PreToolUse of the next block.
C15_MutatingOneAtATime ==
    [][ /\ (\E k \in 1..Len(workers') : workers'[k].st = "running") =>
              OnlyPureTools(tool_uses')
        /\ (pc' \in {"par", "join", "post"}) =>
              OnlyPureTools(tool_uses') /\ tool_uses' # <<>>
        /\ (pc' = "seq") =>
              /\ ~OnlyPureTools(tool_uses')
              /\ workers' = <<>> /\ spawn_futures' = <<>> /\ slots' = <<>>
        /\ (pc = "seq" /\ PreStep) =>
              /\ last_call'[1].index = i /\ last_call'[1].id = tool_uses[i].id
              /\ Len(tool_results') = Len(tool_results) + 1
              /\ tool_results'[Len(tool_results')].tool_use_id = tool_uses[i].id
              /\ \A k \in 1..Len(tool_results) : tool_results'[k] = tool_results[k]
        /\ (pc = "seq" /\ pc' = "seq") => i' = i + 1 ]_vars

\* A mixed batch (Read, then Bash) with the first tool done and the second to come.
C15_Witness ==
    /\ pc = "seq" /\ i = 2 /\ Called /\ TheCall.invoked
    /\ tool_uses[1].name = "Read" /\ tool_uses[2].name = "Bash"
    /\ Len(tool_results) = 1

\* The step from the top of the inner loop to the API call.
BeforeApiCall == pc = "loop" /\ pc' = "api"

\* C16: trim_conversation never removes or alters the first message, and
\* before each API call the byte-based trim is applied if and only if
\* last_input_tokens is 0 or at least 120,000; for a value in between the
\* conversation is left as it is even when it is over the byte budget.
C16_TrimGate ==
    [][ /\ (conversation # <<>>) =>
              /\ trim_conversation(conversation) # <<>>
              /\ trim_conversation(conversation)[1] = conversation[1]
        /\ BeforeApiCall =>
              /\ conversation' =
                    IF last_input_tokens = 0 \/ last_input_tokens >= 120000
                    THEN trim_conversation(conversation)
                    ELSE conversation
              /\ conversation'[1] = conversation[1] ]_vars

\* Over the byte budget, token count in between: the call goes out untrimmed.
C16_Witness ==
    /\ pc = "api" /\ api_log = NoApi
    /\ last_input_tokens > 0 /\ last_input_tokens < 120000
    /\ Len(conversation) > 2 /\ ConvBytes(conversation) > 720000

\* C17: the byte-based trim preserves role alternation: for every conversation
\* of more than 2 messages that alternates user/assistant starting with user
\* and exceeds the byte budget, the result of trim_conversation also alternates
\* strictly user/assistant and starts with the original first user message.
C17_TrimKeepsAlternation ==
    (/\ Len(conversation) > 2
     /\ Alternates(conversation)
     /\ ConvBytes(conversation) > 720000) =>
        /\ Alternates(trim_conversation(conversation))
        /\ trim_conversation(conversation)[1] = conversation[1]

\* The request about to be sent (or sent and failing): an alternating
\* conversation that ends with the user message of the call.
FailedCallInput ==
    /\ pc = "api"
    /\ conversation # <<>>
    /\ Alternates(conversation)
    /\ Last(conversation).role = "user"

\* C18: recover_conversation leaves a valid exchange prefix: applied to an
\* alternating conversation that ends with the user message of the failed call,
\* it pops that user message, then pops a trailing assistant message only if
\* all its blocks are ToolUse, together with the user message before it; the
\* result alternates starting with user, is empty or ends with an assistant
\* message, and contains no assistant ToolUse without its ToolResult.
C18_RecoverLeavesValidPrefix ==
    FailedCallInput =>
        LET m1 == Pop(conversation)
            r  == recover_conversation(conversation)
        IN  /\ r = IF m1 # <<>> /\ OnlyToolUse(Last(m1)) THEN Pop(Pop(m1)) ELSE m1
            /\ Alternates(r)
            /\ r = <<>> \/ Last(r).role = "assistant"
            /\ Answered(r)

\* The last response had stop reason MaxTokens, had ToolUse blocks, and each of
\* its ToolUse blocks had null input.
NullToolUsesOnly ==
    /\ api_result # <<>>
    /\ api_result.stop_reason = "MaxTokens"
    /\ \E k \in 1..Len(api_result.blocks) : IsToolUse(api_result.blocks[k])
    /\ \A k \in 1..Len(api_result.blocks) :
          IsToolUse(api_result.blocks[k]) => api_result.blocks[k].input = "null"

\* ... and it had no other block: filtering leaves nothing.
NothingButNullToolUses ==
    /\ NullToolUsesOnly
    /\ \A k \in 1..Len(api_result.blocks) : IsToolUse(api_result.blocks[k])

\* What the controller does with an empty truncated response: the placeholder
\* is the assistant message, nothing is dispatched, no tool hook runs, and the
\* turn is on its way out with tag continuation_cap.
BreaksEmpty ==
    /\ pc \in {"stop", "idle"}
    /\ blocks = <<Text("[Response truncated]")>>
    /\ Last(conversation) = Message("assistant", <<Text("[Response truncated]")>>)
    /\ tool_uses = <<>> /\ tool_results = <<>> /\ last_call = <<>>
    /\ stop_reason_str = "continuation_cap"
    /\ pc = "stop" => stop_calls = 0
    /\ pc = "idle" => stop_calls = 1 /\ stop_arg.reason = "continuation_cap"

\* C19 as stated: a MaxTokens response all of whose ToolUse blocks have null
\* input is replaced by the placeholder and ends the turn with tag
\* continuation_cap, without tool dispatch and without tool hooks.
C19_AllNullToolUses == NullToolUsesOnly => BreaksEmpty

\* C19: when a response has stop reason MaxTokens and consists of nothing but
\* null-input ToolUse blocks, the controller filters them, emits the placeholder
\* Text "[Response truncated]", dispatches no tool and runs no PreToolUse or
\* PostToolUse hook, and the turn exits with tag continuation_cap with one Stop
\* hook invocation.
C19_TruncatedToolUse ==
    /\ [](NothingButNullToolUses => BreaksEmpty)
    /\ (NothingButNullToolUses /\ pc = "stop")
          ~> (NothingButNullToolUses /\ pc = "idle" /\ stop_calls = 1
              /\ stop_arg.reason = "continuation_cap")

C19_Witness ==
    /\ NothingButNullToolUses
    /\ pc = "idle" /\ stop_calls = 1 /\ stop_arg.reason = "continuation_cap"
    /\ hooks # CfgNone

ContinuationPrompt == Message("user", <<Text("Continue from where you left off.")>>)

PromptCount(ms) == Cardinality({k \in 1..Len(ms) : ms[k] = ContinuationPrompt})

\* The step on which send_message returns a response with stop reason MaxTokens.
MaxTokensStep ==
    pc = "api" /\ api_result' # <<>> /\ api_result'.stop_reason = "MaxTokens"

\* The response carries text and no ToolUse block.
TextOnly(r) ==
    /\ r.blocks # <<>>
    /\ \A k \in 1..Len(r.blocks) : r.blocks[k].type = "text"
    /\ r.blocks # <<Text("[Response truncated]")>>

\* The response carries a ToolUse block whose input is not null.
HasValidToolUse(r) ==
    \E k \in 1..Len(r.blocks) : IsToolUse(r.blocks[k]) /\ r.blocks[k].input # "null"

\* C20: within one turn at most 3 continuation prompts are appended: a
\* text-only MaxTokens response with continuation_count < 3 increments the
\* count, appends the prompt and continues; one with the count at 3 exits with
\* tag continuation_cap; a MaxTokens response with valid ToolUse blocks goes to
\* tool dispatch and leaves the count unchanged; the count is never reset
\* within the turn.
C20_ContinuationCap ==
    [][ /\ continuation_count' <= 3
        /\ turn' = turn =>
              /\ continuation_count' >= continuation_count
              /\ PromptCount(conversation') - PromptCount(conversation)
                    <= continuation_count' - continuation_count
        /\ (MaxTokensStep /\ TextOnly(api_result') /\ continuation_count < 3) =>
              /\ continuation_count' = continuation_count + 1
              /\ conversation' = conversation \o
                    <<Message("assistant", api_result'.blocks), ContinuationPrompt>>
              /\ pc' = "loop"
        /\ (MaxTokensStep /\ TextOnly(api_result') /\ continuation_count = 3) =>
              /\ continuation_count' = 3
              /\ conversation' = Append(conversation, Message("assistant", api_result'.blocks))
              /\ pc' = "stop" /\ stop_reason_str' = "continuation_cap"
        /\ (MaxTokensStep /\ HasValidToolUse(api_result')) =>
              /\ continuation_count' = continuation_count
              /\ pc' \in {"par", "seq"} /\ tool_uses' # <<>>
              /\ PromptCount(conversation') = PromptCount(conversation) ]_vars

\* A turn that used its three continuations and left at the cap.
C20_Witness ==
    /\ pc = "stop" /\ stop_reason_str = "continuation_cap"
    /\ continuation_count = 3
    /\ api_result # <<>> /\ TextOnly(api_result)
    /\ PromptCount(conversation) = 3

\* A batch has been gone through, a PostToolUse hook signalled in it and no
\* block threshold tripped.
SignalledBatchEnd == pc = "batch_end" /\ signal_break /\ ~threshold_tripped

\* C21: if a PostToolUse hook signals for any tool of a batch and no block
\* threshold trips, the remaining tools of the batch are still processed, the
\* batch's results are appended as a single user message, tool_iterations is
\* incremented by 1, and the turn exits with tag convergence_signal without
\* issuing another API call.
C21_SignalEndsTurnAfterBatch ==
    /\ [][ /\ (signal_break /\ pc \in {"seq", "post"}) =>
                 /\ i' = i + 1
                 /\ pc' \in {pc, "batch_end"}
                 /\ pc' = "batch_end" => (i = Len(tool_uses) \/ threshold_tripped')
           /\ SignalledBatchEnd =>
                 /\ \A k \in 1..Len(tool_uses) :
                       tool_uses[k].input # "null" =>
                          \E r \in 1..Len(tool_results) :
                             tool_results[r].tool_use_id = tool_uses[k].id
                 /\ conversation' = Append(conversation, Message("user", tool_results))
                 /\ tool_iterations' = tool_iterations + 1
                 /\ pc' = "stop" /\ stop_reason_str' = "convergence_signal"
                 /\ api_log' = api_log /\ api_result' = api_result ]_vars
    /\ SignalledBatchEnd ~>
          (pc = "idle" /\ stop_calls = 1 /\ stop_arg.reason = "convergence_signal")

\* Both tools of the one batch of the turn signalled: the second was processed
\* after the first had set signal_break.
C21_Witness ==
    /\ TurnExited /\ turn = 1 /\ hooks = CfgBasic
    /\ stop_arg.reason = "convergence_signal"
    /\ tool_iterations = 1 /\ Len(tool_uses) = 2
    /\ Len(convergence.observations) = 2
    /\ Len(Last(conversation).content) = 2

\* The configured hooks of an event and phase that match a tool, by position.
MatchingPre(tool, phases) ==
    {k \in 1..Len(hooks) : /\ hooks[k].event = "PreToolUse"
                           /\ hooks[k].phase \in phases
                           /\ (hooks[k].match_tool = <<>> \/ hooks[k].match_tool = <<tool>>)}

\* A sequence of positions in configuration order, none twice.
InConfigOrder(ks) == \A a, b \in 1..Len(ks) : a < b => ks[a] < ks[b]

GuardStops(o) == HookFailed(o) \/ o.action = "block"

\* C22: guard hooks matching the tool (phase "guard" or unset) run in
\* configuration order; at the first guard that returns action "block" (or
\* fails) no later guard hook is run, and that hook's command is the blocked_by
\* of the outcome; a guard that returns any action other than "block" lets
\* evaluation proceed to the next guard.
C22_FirstBlockingGuardWins ==
    Called =>
        LET c == TheCall
            matching == MatchingPre(c.name, {<<>>, <<"guard">>})
            n == Len(c.guards)
        IN  /\ InConfigOrder(c.guards)
            /\ Range(c.guards) \subseteq matching
            /\ \A k \in matching : \A j \in 1..n : k < c.guards[j] => k \in Range(c.guards)
            /\ \A j \in 1..n :
                  IF GuardStops(c.guard_outs[j])
                  THEN /\ j = n
                       /\ c.result = "Block"
                       /\ c.blocked_by = hooks[c.guards[j]].command
                  ELSE \/ j < n
                       \/ /\ Range(c.guards) = matching
                          /\ c.result = "Allow"
            /\ (n = 0) => (matching = {} /\ c.result = "Allow")

\* The first of two matching guards blocks: the second is not run.
C22_Witness ==
    /\ Called /\ hooks = CfgChain /\ TheCall.name = "Bash"
    /\ TheCall.guards = <<1>>
    /\ TheCall.result = "Block" /\ TheCall.blocked_by = "gBash"

\* C23: every matching observe hook runs exactly once per run_pre_tool_use
\* call, after the guard phase has finished and in configuration order, whether
\* the guard outcome is Allow or Block; its input's blocked flag equals the
\* guard outcome, with blocked_by and block_reason present exactly when
\* blocked; an observe hook failure never changes the returned outcome and
\* never prevents later observe hooks from running.
C23_ObserveAlwaysRuns ==
    Called =>
        LET c == TheCall
            n == Len(c.guards)
            guardsBlock == n > 0 /\ GuardStops(c.guard_outs[n])
        IN  /\ InConfigOrder(c.observes)
            /\ Range(c.observes) = MatchingPre(c.name, {<<"observe">>})
            /\ Len(c.observe_outs) = Len(c.observes)
            /\ c.observe_input.blocked = guardsBlock
            /\ c.observe_input.blocked_by =
                  (IF guardsBlock THEN <<hooks[c.guards[n]].command>> ELSE <<>>)
            /\ (c.observe_input.block_reason # <<>>) = guardsBlock
            /\ c.result = (IF guardsBlock THEN "Block" ELSE "Allow")
            /\ c.invoked = ~guardsBlock

\* Two observe hooks match, the first fails, the second still runs; the guard
\* outcome is Block.
C23_Witness ==
    /\ Called /\ hooks = CfgChain /\ TheCall.name = "Bash"
    /\ TheCall.observes = <<5, 6>>
    /\ HookFailed(TheCall.observe_outs[1])
    /\ TheCall.result = "Block" /\ TheCall.observe_input.blocked

PostCalled == last_post # <<>>
ThePost == last_post[1]

\* The signal and reason a hook answer carries, with the defaults of the runner.
SignalOf(o) ==
    <<IF o.signal = <<>> THEN "unknown" ELSE o.signal[1],
      IF o.reason = <<>> THEN "no reason" ELSE o.reason[1]>>

Signals(o) == o.status = "ok" /\ o.valid /\ o.action = "signal"

IsPrefix(a, b) == Len(a) <= Len(b) /\ SubSeq(b, 1, Len(a)) = a

\* C25: across any sequence of successful writes to the convergence file
\* (observation writes and final-state writes in any order), previously
\* recorded observations are kept in order with new ones appended at the end,
\* an existing final entry survives later observation writes, a final write
\* replaces only the final entry, and after each write no .tmp file remains.
C25_ConvergenceFileAppends ==
    [][ /\ IsPrefix(convergence.observations, convergence'.observations)
        /\ convergence'.tmp = <<>>
        /\ convergence.exists => convergence'.exists
        /\ (pc # "stop") => convergence'.final = convergence.final
        /\ (pc = "stop") =>
              /\ convergence'.exists
              /\ convergence'.observations = convergence.observations
              /\ Len(convergence'.final) = 1
        /\ (PostCalled' /\ last_post' # last_post) =>
              /\ ThePost'.before = convergence.observations
              /\ ThePost'.after = convergence'.observations ]_vars

\* An observation is appended in the second turn to a file that holds an
\* observation and the final entry of the first turn.
C25_Witness ==
    /\ turn = 2 /\ pc # "idle" /\ PostCalled
    /\ Len(ThePost.before) >= 1 /\ Len(ThePost.after) > Len(ThePost.before)
    /\ convergence.observations = ThePost.after
    /\ convergence.final # <<>> /\ convergence.tmp = <<>>

SseReturned == sse.result # <<>>
SseResult == sse.result[1]
\* What the decoder returns for the whole stream delivered as one chunk.
OneChunk(bytes) == SseReturn(FeedChunk(SseStart, bytes))

\* C27: for a fixed byte sequence parse_sse_stream returns the same result
\* (the same blocks, stop reason and usage, or the same error) however the
\* transport splits the bytes into chunks: whenever the call has returned
\* without a transport error, its result is the result of the same bytes
\* delivered as one chunk.
C27_ChunkingIndependent ==
    (SseReturned /\ ~sse.transport) => SseResult = OneChunk(sse.input)

\* The call went through the whole stream: no error event, no transport error.
SseEndOfStream == SseReturned /\ ~sse.transport /\ sse.st.err = <<>>
\* Some message_delta the decoder processed carried a stop_reason it knows.
SseStopCarried == \E k \in 1..Len(sse.st.seen) : sse.st.seen[k] \in {"md_end", "md_max", "md_tool"}

\* C28: at the end of a stream without error event or transport error,
\* parse_sse_stream fails, with StreamTransient, exactly when no message_delta
\* carried end_turn, max_tokens or tool_use; whenever one did, it returns the
\* assembled triple.
C28_TripleWhenStopReasonSeen ==
    SseEndOfStream =>
        /\ SseResult.ok <=> SseStopCarried
        /\ ~SseResult.ok => SseResult.error = StreamTransient

SseErrorEvents == {"err_over", "err_api", "err_rate", "err_inv", "err_notype"}
\* The decoder has processed an error event.
SseErrorSeen == \E k \in 1..Len(sse.st.seen) : sse.st.seen[k] \in SseErrorEvents
SseLastSeen == sse.st.seen[Len(sse.st.seen)]

\* C29: once an error event has been processed the call has returned, the
\* error event is the last event processed, and the result is an error that
\* carries no blocks: StreamTransient for overloaded_error, api_error and
\* rate_limit_error, StreamParse for any other type and for a missing type.
\* A call that has returned processes nothing more.
C29_ErrorEventReturnsAtOnce ==
    /\ [](SseErrorSeen =>
            /\ SseReturned
            /\ SseLastSeen \in SseErrorEvents
            /\ \A k \in 1..(Len(sse.st.seen) - 1) : sse.st.seen[k] \notin SseErrorEvents
            /\ DOMAIN SseResult = {"ok", "error"}
            /\ ~SseResult.ok
            /\ SseResult.error =
                  IF SseLastSeen \in {"err_over", "err_api", "err_rate"}
                  THEN StreamTransient ELSE StreamParse)
    /\ [][SseReturned => sse' = sse]_vars

\* An invalid_request_error met with a block assembled and a complete
\* message_delta behind it in the buffer.
C29_Witness ==
    /\ SseErrorSeen
    /\ SseLastSeen = "err_inv"
    /\ sse.st.content_blocks # <<>>
    /\ FindBlank(sse.st.buffer) # 0
    /\ SseResult.error = StreamParse

\* ---- classify_error claims
Classified == classified.class # <<>>
TheFault == classified.error[1]
TheClass == classified.class[1]
\* The class of every fault that is not an HTTP status.
NonHttpClass(e) ==
    CASE e.kind = "StreamTransient" -> "Transient"
      [] e.kind = "StreamParse" -> "Permanent"
      [] e.kind = "Json" -> "Permanent"
      [] e.kind = "Api" /\ e.how \in {"timeout", "connect"} -> "Transient"
      [] e.kind = "Api" -> "Permanent"

\* C30 as stated: every fault gets one class; an HTTP status is Transient
\* when it is 429, 503, 529 or a 5xx and Permanent otherwise; StreamTransient is
\* Transient, StreamParse and JSON faults are Permanent, a transport timeout or
\* connect failure is Transient and any other transport error Permanent.
C30_Only5xxTransient ==
    Classified =>
        /\ TheClass \in {"Transient", "Permanent"}
        /\ TheFault.kind = "HttpError" =>
              (TheClass = "Transient" <=>
                  (TheFault.status \in {429, 503, 529} \/ TheFault.status \in 500..599))
        /\ TheFault.kind # "HttpError" => TheClass = NonHttpClass(TheFault)

\* C30: every fault gets one class; an HTTP status is Transient when it is
\* 429, 503, 529 or at least 500 (the statuses 600 to 999 included) and
\* Permanent otherwise; StreamTransient is Transient, StreamParse and JSON
\* faults are Permanent, a transport timeout or connect failure is Transient
\* and any other transport error Permanent.
C30_ClassifyError ==
    Classified =>
        /\ TheClass \in {"Transient", "Permanent"}
        /\ TheFault.kind = "HttpError" =>
              (TheClass = "Transient" <=>
                  (TheFault.status \in {429, 503, 529} \/ TheFault.status >= 500))
        /\ TheFault.kind # "HttpError" => TheClass = NonHttpClass(TheFault)

\* A status above the 5xx range has been classified, as Transient.
C30_Witness ==
    /\ Classified
    /\ TheFault.kind = "HttpError"
    /\ TheFault.status = 600
    /\ TheClass = "Transient"

\* ---- iteration limit
\* An API call is out: send_message is running, on the first or a later attempt.
ApiCallOut == pc = "api"

\* C31 as stated: at every API call, retries included, the last message has
\* role user and tool_iterations < 50; with tool_iterations at 50 no API call
\* is out, and a turn that reached 50 exits with tag iteration_limit.
C31_LimitAlwaysIterationLimit ==
    /\ ApiCallOut => (Last(conversation).role = "user" /\ tool_iterations < 50)
    /\ (TurnExited /\ tool_iterations = 50) => stop_arg.reason = "iteration_limit"

\* C31: at every API call, retries included, the last message has role user
\* and tool_iterations < 50.  Once tool_iterations is 50 no API call, hook or
\* tool runs any more in the turn: if the batch that reached 50 signalled, the
\* turn exits with tag convergence_signal, and otherwise the top of the loop
\* runs recover_conversation and the turn exits with tag iteration_limit.
C31_IterationLimit ==
    /\ [](ApiCallOut => (Last(conversation).role = "user" /\ tool_iterations < 50))
    /\ [](tool_iterations >= 50 =>
            /\ tool_iterations = 50
            /\ pc \in {"loop", "stop", "idle"}
            /\ pc = "loop" => ~signal_break
            /\ pc = "stop" =>
                  stop_reason_str = IF signal_break THEN "convergence_signal"
                                    ELSE "iteration_limit"
            /\ pc = "idle" =>
                  stop_arg.reason = IF signal_break THEN "convergence_signal"
                                    ELSE "iteration_limit")
    /\ [][(pc = "loop" /\ tool_iterations >= 50) =>
            /\ pc' = "stop"
            /\ stop_reason_str' = "iteration_limit"
            /\ conversation' =
                  recover_conversation(trim_if_needed(conversation, last_input_tokens))]_vars

\* The limit has stopped a turn that never signalled.
C31_Witness ==
    /\ pc = "stop" /\ stop_calls = 0
    /\ tool_iterations = 50
    /\ stop_reason_str = "iteration_limit"
    /\ ~signal_break

\* ---- null-input blocks
\* Tool dispatch is at a ToolUse block with null input: in the PreToolUse loop
\* of either path, or in the PostToolUse loop of the parallel path.
AtNullInDispatch == pc \in {"par", "seq"} /\ tool_uses[i].input = "null"
AtNullInPostLoop == pc = "post" /\ tool_uses[i].input = "null"

\* C32: a ToolUse block with null input is skipped by tool dispatch on both
\* paths: the step that handles it runs no PreToolUse hook, spawns no worker
\* and invokes no tool, leaves the block counters as they are, and no
\* PostToolUse hook runs for it (no hook subprocess, no observation written,
\* no signal taken).
C32_NullInputSkipped ==
    [][ /\ AtNullInDispatch =>
              /\ last_call' = <<>>
              /\ UNCHANGED <<consecutive_block_count, total_block_count, workers,
                             spawn_futures, tool_results, last_post, convergence,
                             signal_break>>
        /\ AtNullInPostLoop =>
              /\ last_post' = last_post \/ last_post'[1].ran = <<>>
              /\ UNCHANGED <<convergence, signal_break>> ]_vars

\* ---- trim and pairs
HasToolResult(m) == \E r \in 1..Len(m.content) : IsToolResult(m.content[r])

\* Every user message with ToolResults comes right after the assistant message
\* that holds the ToolUse blocks of the same ids.
ResultsPaired(ms) ==
    \A k \in 1..Len(ms) :
        (ms[k].role = "user" /\ HasToolResult(ms[k])) =>
            /\ k > 1
            /\ ms[k - 1].role = "assistant"
            /\ \A r \in 1..Len(ms[k].content) :
                  IsToolResult(ms[k].content[r]) =>
                      \E j \in 1..Len(ms[k - 1].content) :
                          /\ IsToolUse(ms[k - 1].content[j])
                          /\ ms[k - 1].content[j].id = ms[k].content[r].tool_use_id

WellFormed(ms) == Alternates(ms) /\ Answered(ms) /\ ResultsPaired(ms)

\* C33: trimming keeps tool_use/tool_result pairs together: when the trim
\* before an API call is applied to a well-formed conversation, every user
\* message with ToolResults in the result still comes right after the
\* assistant message with the ToolUse blocks of the same ids, and every
\* assistant ToolUse still has its ToolResult in the next message.
C33_TrimKeepsPairs ==
    [][(BeforeApiCall /\ WellFormed(conversation)) =>
          (ResultsPaired(conversation') /\ Answered(conversation'))]_vars

\* ---- threshold and signal in one batch
\* The batch just handled had a PostToolUse signal and then a tripping block.
SignalThenTrip == threshold_tripped /\ signal_break /\ pc \in {"stop", "idle"}

\* C34: a block threshold takes precedence over a convergence signal: when a
\* PostToolUse hook signalled for an earlier tool of a batch and a later block
\* of the batch trips a threshold, the turn exits with the tag of the
\* threshold, block_limit_consecutive or block_limit_total, which is what the
\* Stop hook receives, and the conversation is the one the last request sent:
\* neither the assistant message nor any result of the batch stays in it.
C34_ThresholdBeatsSignal ==
    SignalThenTrip =>
        /\ stop_reason_str \in {"block_limit_consecutive", "block_limit_total"}
        /\ stop_reason_str = threshold_reason
        /\ conversation = sent_messages
        /\ pc = "idle" => (stop_calls = 1 /\ stop_arg.reason = stop_reason_str)

\* The first tool of a batch ran and its hook signalled, the next three were
\* blocked, and the turn has ended.
C34_Witness ==
    /\ SignalThenTrip
    /\ pc = "idle"
    /\ Len(tool_uses) = 4
    /\ Len(tool_results) = 4
    /\ ~tool_results[1].is_error
    /\ convergence.observations # <<>>
    /\ stop_arg.reason = "block_limit_consecutive"

\* ---- order of the hooks in an all-pure batch
\* An all-pure batch is being handled: PreToolUse loop, join, PostToolUse loop.
InPureBatch == pc \in {"par", "join", "post"}
Spawned == Range(spawn_futures)

\* C35 as stated: in every all-pure batch the PostToolUse hooks run for each
\* entry that was not blocked: when the batch is over, the hooks have run for
\* an entry whose tool was allowed and spawned.
C35_PostForEveryUnblocked ==
    (/\ pc = "batch_end"
     /\ slots # <<>>
     /\ \E k \in Spawned : PostHooks(hooks, tool_uses[k].name) # <<>>) => PostCalled

\* C35: in an all-pure batch PreToolUse runs for the blocks with an input one
\* after another in block order, up to a block that trips a threshold, before
\* any join: while it runs no worker has been joined and no PostToolUse hook
\* has run.  If a threshold tripped no PostToolUse hook runs.  Otherwise the
\* PostToolUse loop starts after every spawned worker has completed and been
\* joined, goes through the slots in order from the first to the last, runs
\* the matching hooks once for each entry that was not blocked and none for a
\* blocked one, and goes on to the last slot when a hook has signalled.
C35_PureBatchHookOrder ==
    /\ [](pc = "par" =>
            /\ last_post = <<>>
            /\ \A k \in 1..Len(workers) : workers[k].st # "joined"
            /\ \A k \in Spawned : k < i /\ slots[k] = <<>>
            /\ Called => TheCall.index = i - 1)
    /\ [](pc = "post" =>
            /\ ~threshold_tripped
            /\ \A k \in Spawned : workers[k].st = "joined" /\ slots[k] # <<>>
            /\ i \in 1..Len(tool_uses))
    /\ [][(pc = "par" /\ last_call' # last_call) =>
            /\ i' = i + 1
            /\ Called' => (TheCall'.index = i /\ TheCall'.name = tool_uses[i].name)]_vars
    /\ [][(pc = "join" /\ pc' # "join") =>
            /\ \A k \in Spawned : workers[k].st \in {"done", "panicked"}
            /\ pc' = IF threshold_tripped THEN "batch_end" ELSE "post"
            /\ i' = 1
            /\ last_post' = <<>>]_vars
    /\ [][pc = "post" =>
            /\ i' = i + 1
            /\ pc' = IF i = Len(tool_uses) THEN "batch_end" ELSE "post"
            /\ blocked_flags[i] => UNCHANGED <<last_post, convergence, signal_break>>
            /\ ~blocked_flags[i] =>
                  /\ PostCalled'
                  /\ ThePost'.name = tool_uses[i].name
                  /\ ThePost'.ran = PostHooks(hooks, tool_uses[i].name)
                  /\ signal_break' = (signal_break \/ ThePost'.result = "Signal")]_vars
    /\ [][(InPureBatch /\ last_post' # last_post) => (pc = "post" /\ ~blocked_flags[i])]_vars

\* The hooks run for the third slot of a batch after the hook of the first
\* slot has signalled and the second slot was blocked.
C35_Witness ==
    /\ pc = "post" /\ i = 4
    /\ signal_break
    /\ blocked_flags[2] /\ ~blocked_flags[3]
    /\ PostCalled /\ ThePost.name = tool_uses[3].name /\ ThePost.ran # <<>>
    /\ ThePost.result = "Continue"

\* ---- streaming callback
\* C36: for every stream that returns Ok, the text emitted to the callback for
\* an index, in arrival order, is the text of the returned Text block of that
\* index: text was emitted for an index only if the returned block at that
\* index is a Text block, and every returned Text block holds exactly the text
\* emitted for its index.
C36_CallbackEqualsBlockText ==
    (SseReturned /\ SseResult.ok) =>
        \A k \in 1..2 :
            /\ sse.st.emitted[k] # <<>> =>
                  /\ k <= Len(SseResult.blocks)
                  /\ SseResult.blocks[k].type = "text"
            /\ (k <= Len(SseResult.blocks) /\ SseResult.blocks[k].type = "text") =>
                  SseResult.blocks[k].text = sse.st.emitted[k]

\* ---- choice of the dispatch path
\* The step in which a response is received and its batch goes to dispatch.
DispatchStep == pc = "api" /\ pc' \in {"par", "seq", "batch_end"}
ToolNames == {"Read", "Glob", "Grep", "Bash", "Edit", "Frob", ""}
NamesOf(bs) == {bs[k].name : k \in {j \in 1..Len(bs) : bs[j].type = "tool_use"}}

\* C37: tool_effect is Pure for Read, Glob and Grep and Mutating for Bash,
\* Edit, an unknown name and the empty name; a batch goes to the parallel path
\* if and only if the response has at least one ToolUse block and every tool
\* named in it is one of Read, Glob, Grep; with one Mutating or unknown tool in
\* it the whole batch goes to the sequential path.
C37_ParallelIffAllPure ==
    /\ [](\A n \in ToolNames :
            tool_effect(n) = IF n \in {"Read", "Glob", "Grep"} THEN "Pure" ELSE "Mutating")
    /\ [][DispatchStep =>
            /\ NamesOf(blocks') \subseteq ToolNames
            /\ pc' = "par" <=>
                  (NamesOf(blocks') # {} /\ NamesOf(blocks') \subseteq {"Read", "Glob", "Grep"})
            /\ pc' = "seq" <=>
                  (NamesOf(blocks') \ {"Read", "Glob", "Grep"} # {})
            /\ pc' = "batch_end" <=> NamesOf(blocks') = {}]_vars

\* A batch of a Read and a tool with the empty name is on the sequential path.
C37_Witness ==
    /\ pc = "seq" /\ i = 1
    /\ Len(tool_uses) = 2
    /\ tool_uses[1].name = "Read" /\ tool_uses[2].name = ""

\* ---- retries and the state of the turn
\* A failed attempt that is followed by another attempt of the same call.
RetriedStep == pc = "api" /\ pc' = "api" /\ attempt' = attempt + 1
\* The attempt that returns a response.
SuccessStep == pc = "api" /\ api_result' # <<>>
TurnStartStep == pc = "idle" /\ pc' # "idle"

\* The blocks of the assistant message that SuccessStep appends.
AppendedContent == conversation'[Len(conversation) + 1].content
Placeholder == <<Text("[Response truncated]")>>
\* SuccessStep appends one assistant message and counts the response's tokens.
AppendsAndCounts ==
    /\ Len(conversation') > Len(conversation)
    /\ SubSeq(conversation', 1, Len(conversation)) = conversation
    /\ conversation'[Len(conversation) + 1].role = "assistant"
    /\ total_tokens' = total_tokens + api_result'.usage.input_tokens
                                     + api_result'.usage.output_tokens
OnlyBlocksOf(r) ==
    \A k \in 1..Len(AppendedContent) :
       \E j \in 1..Len(r.blocks) : AppendedContent[k] = r.blocks[j]
TokensOnlyBySuccess ==
    total_tokens' # total_tokens => SuccessStep \/ (TurnStartStep /\ total_tokens' = 0)

\* C38 as stated: a failed attempt that is retried changes neither the
\* conversation nor any counter of the turn; the assistant message appended
\* after a successful retry holds only blocks of the response of the successful
\* attempt; total_tokens grows only by the tokens of successful calls.
C38_OnlyBlocksOfAttempt ==
    /\ [][RetriedStep => UNCHANGED <<conversation, counters>>]_vars
    /\ [][SuccessStep /\ attempt > 0 =>
            AppendsAndCounts /\ OnlyBlocksOf(api_result')]_vars
    /\ [][TokensOnlyBySuccess]_vars

\* C38: a failed attempt that is retried changes neither the conversation nor
\* any counter of the turn; the successful attempt appends one assistant message
\* after the unchanged conversation and adds the response's input and output
\* tokens to total_tokens; the message holds only blocks of that response, or,
\* when the response stopped at MaxTokens and all its blocks are ToolUse blocks
\* with null input (or it has none), the one placeholder text block;
\* total_tokens changes in no other step of a turn.
C38_RetryLeavesTurnState ==
    /\ [][RetriedStep => UNCHANGED <<conversation, counters>>]_vars
    /\ [][SuccessStep =>
            /\ AppendsAndCounts
            /\ \/ OnlyBlocksOf(api_result')
               \/ /\ AppendedContent = Placeholder
                  /\ api_result'.stop_reason = "MaxTokens"
                  /\ \A j \in 1..Len(api_result'.blocks) :
                        /\ api_result'.blocks[j].type = "tool_use"
                        /\ api_result'.blocks[j].input = "null"]_vars
    /\ [][TokensOnlyBySuccess]_vars

\* A response has been received on a retry, after at least one failed attempt.
C38_Witness ==
    /\ api_result # <<>>
    /\ api_log.error = <<>> /\ api_log.attempt > 0
    /\ Len(conversation) >= 2 /\ Last(conversation).role = "assistant"
    /\ Last(conversation).content = api_result.blocks
    /\ total_tokens = api_result.usage.input_tokens + api_result.usage.output_tokens

\* ---- bounds of the counters of a turn
\* A block threshold has been reached in the current turn: the counters keep
\* their value from then on until the next turn starts.
ThresholdReached == consecutive_block_count >= 3 \/ total_block_count >= 10

\* C39: in every reachable state 0 <= consecutive_block_count <=
\* total_block_count, consecutive_block_count <= 3, total_block_count <= 10 and
\* tool_iterations <= 50; once consecutive_block_count = 3 or total_block_count
\* = 10 has been reached, no step of that turn runs a PreToolUse hook, invokes a
\* tool on the sequential path or spawns a worker on the parallel path (workers
\* spawned before only finish and are joined).
C39_CounterBounds ==
    /\ [](/\ 0 <= consecutive_block_count
          /\ consecutive_block_count <= total_block_count
          /\ consecutive_block_count <= 3
          /\ total_block_count <= 10
          /\ 0 <= tool_iterations /\ tool_iterations <= 50)
    /\ [][(ThresholdReached /\ turn' = turn) =>
            /\ ~PreStep
            /\ last_call' = last_call \/ last_call' = <<>>
            /\ UNCHANGED <<consecutive_block_count, total_block_count>>
            /\ Len(spawn_futures') <= Len(spawn_futures)
            /\ Len(tool_results') <= Len(tool_results)
            /\ \A k \in 1..Len(workers') :
                  workers[k].st = "none" => workers'[k].st = "none"]_vars

\* A turn that ended on the total limit with fewer than three blocks in a row,
\* after at least one completed batch.
C39_Witness ==
    /\ TurnExited
    /\ stop_arg.reason = "block_limit_total"
    /\ total_block_count = 10 /\ consecutive_block_count < 3
    /\ tool_iterations > 0

\* ---- the tag end_turn
\* C40: the Stop hook receives the tag end_turn only when the last response of
\* the turn had stop reason EndTurn; a turn whose last response had stop reason
\* ToolUse or MaxTokens ends with one of the other six tags.
C40_EndTurnOnlyAfterEndTurn ==
    (TurnExited /\ api_result # <<>> /\ stop_arg.ran # <<>>) =>
        /\ stop_arg.reason = "end_turn" => api_result.stop_reason = "EndTurn"
        /\ api_result.stop_reason \in {"ToolUse", "MaxTokens"} =>
              stop_arg.reason \in StopTags \ {"end_turn"}

====
